---- MODULE Spec2Model ----
(***************************************************************************)
(* Model of the release command of obsidian-toolkit/dev-tools              *)
(* (src/src/commands/release.ts, the dry-run capable revision that starts  *)
(* at line 452 of the file).                                               *)
(*                                                                         *)
(* Strings are sequences of one-character strings, so that split, trim,    *)
(* Number(), template formatting and the semver grammar are computed and   *)
(* not assumed.                                                            *)
(***************************************************************************)
EXTENDS Integers, Sequences, FiniteSets, TLC

(***************************************************************************)
(* Characters and JavaScript string primitives                             *)
(***************************************************************************)

Digits == {"0", "1", "2", "3", "4", "5", "6", "7", "8", "9"}

IdentLetters == {"a", "b", "d", "e", "f", "i", "l", "n", "s", "u", "v", "N", "R"}

IsSpace(c) == c \in {" ", "\t", "\n"}

\* UTF-16 code units of the characters that occur in the model
CharCode(c) ==
  CASE c = "\t" -> 9  [] c = "\n" -> 10 [] c = " " -> 32 [] c = "+" -> 43
    [] c = "-" -> 45  [] c = "." -> 46
    [] c = "0" -> 48  [] c = "1" -> 49  [] c = "2" -> 50  [] c = "3" -> 51
    [] c = "4" -> 52  [] c = "5" -> 53  [] c = "6" -> 54  [] c = "7" -> 55
    [] c = "8" -> 56  [] c = "9" -> 57
    [] c = "N" -> 78  [] c = "R" -> 82  [] c = "[" -> 91  [] c = "]" -> 93
    [] c = "a" -> 97  [] c = "b" -> 98  [] c = "v" -> 118
    [] OTHER -> 255

DigitVal(c) == CharCode(c) - 48

DigitChar(d) ==
  CASE d = 0 -> "0" [] d = 1 -> "1" [] d = 2 -> "2" [] d = 3 -> "3"
    [] d = 4 -> "4" [] d = 5 -> "5" [] d = 6 -> "6" [] d = 7 -> "7"
    [] d = 8 -> "8" [] d = 9 -> "9"

RECURSIVE TrimLeft(_)
TrimLeft(s) ==
  IF s = << >> THEN s
  ELSE IF IsSpace(Head(s)) THEN TrimLeft(Tail(s)) ELSE s

RECURSIVE TrimRight(_)
TrimRight(s) ==
  IF s = << >> THEN s
  ELSE IF IsSpace(s[Len(s)]) THEN TrimRight(SubSeq(s, 1, Len(s) - 1)) ELSE s

\* String.prototype.trim
Trim(s) == TrimRight(TrimLeft(s))

\* index of the first occurrence of character c in s, 0 when absent
RECURSIVE IndexFrom(_, _, _)
IndexFrom(s, c, i) ==
  IF i > Len(s) THEN 0
  ELSE IF s[i] = c THEN i ELSE IndexFrom(s, c, i + 1)

IndexOf(s, c) == IndexFrom(s, c, 1)

\* String.prototype.split with a one-character separator ("".split(".") is [""])
RECURSIVE Split(_, _)
SplitAt(s, sep, i) ==
  IF i = 0 THEN << s >>
  ELSE << SubSeq(s, 1, i - 1) >> \o Split(SubSeq(s, i + 1, Len(s)), sep)

Split(s, sep) == SplitAt(s, sep, IndexOf(s, sep))

\* Array.prototype.includes (strict equality of strings)
Includes(arr, x) == \E i \in 1..Len(arr) : arr[i] = x

\* String.prototype.toLowerCase, character by character
ToLowerChar(c) ==
  CASE c = "A" -> "a" [] c = "B" -> "b" [] c = "D" -> "d" [] c = "I" -> "i"
    [] c = "N" -> "n" [] c = "O" -> "o" [] c = "S" -> "s"
    [] OTHER -> c

ToLowerCase(s) == [i \in 1..Len(s) |-> ToLowerChar(s[i])]

\* String.prototype.includes
StrIncludes(s, sub) ==
  \E i \in 1..(Len(s) - Len(sub) + 1) : SubSeq(s, i, i + Len(sub) - 1) = sub

AllDigits(s) == s # << >> /\ \A i \in 1..Len(s) : s[i] \in Digits

RECURSIVE DecimalValue(_)
DecimalValue(s) ==
  IF s = << >> THEN 0
  ELSE 10 * DecimalValue(SubSeq(s, 1, Len(s) - 1)) + DigitVal(s[Len(s)])

RECURSIVE DecimalDigits(_)
DecimalDigits(n) ==
  IF n < 10 THEN << DigitChar(n) >>
  ELSE DecimalDigits(n \div 10) \o << DigitChar(n % 10) >>

\* Number(string): surrounding white space is ignored, the empty string is 0,
\* an optionally signed run of decimal digits is its value, the rest is NaN
\* (no character of the model's alphabet forms a hex, exponent or fraction).
NaN == [kind |-> "nan", val |-> 0]

Num(n) == [kind |-> "num", val |-> n]

\* the value of a destructured array element that does not exist
UndefinedNum == [kind |-> "undefined", val |-> 0]

NumberOfTrimmed(t) ==
  IF t = << >> THEN Num(0)
  ELSE IF AllDigits(t) THEN Num(DecimalValue(t))
  ELSE IF Head(t) = "-" /\ AllDigits(Tail(t)) THEN Num(0 - DecimalValue(Tail(t)))
  ELSE IF Head(t) = "+" /\ AllDigits(Tail(t)) THEN Num(DecimalValue(Tail(t)))
  ELSE NaN

Number(s) == NumberOfTrimmed(Trim(s))

\* x + k for a JavaScript number
NumPlus(x, k) == IF x.kind = "num" THEN Num(x.val + k) ELSE NaN

\* `${x}` for a JavaScript number
NumToString(x) ==
  IF x.kind = "nan" THEN << "N", "a", "N" >>
  ELSE IF x.kind = "undefined"
    THEN << "u", "n", "d", "e", "f", "i", "n", "e", "d" >>
  ELSE IF x.val < 0 THEN << "-" >> \o DecimalDigits(0 - x.val)
  ELSE DecimalDigits(x.val)

Dot == << "." >>

(***************************************************************************)
(* The semver package as the release command uses it: valid, lt, eq in     *)
(* strict mode                                                             *)
(***************************************************************************)

IsIdentChar(c) == c \in Digits \cup IdentLetters \cup {"-"}

\* NUMERICIDENTIFIER: 0|[1-9]\d*
IsNumericId(s) == AllDigits(s) /\ (Len(s) = 1 \/ s[1] # "0")

\* PRERELEASEIDENTIFIER: a numeric identifier or \d*[a-zA-Z-][a-zA-Z0-9-]*
IsPrereleaseId(s) ==
  \/ IsNumericId(s)
  \/ /\ s # << >>
     /\ \A i \in 1..Len(s) : IsIdentChar(s[i])
     /\ \E i \in 1..Len(s) : s[i] \notin Digits

\* BUILDIDENTIFIER: [0-9A-Za-z-]+
IsBuildId(s) == s # << >> /\ \A i \in 1..Len(s) : IsIdentChar(s[i])

NotSemver ==
  [ok |-> FALSE, major |-> 0, minor |-> 0, patch |-> 0, prerelease |-> << >>]

AllNumericIds(parts) == \A i \in 1..Len(parts) : IsNumericId(parts[i])

AllPrereleaseIds(ids) == \A i \in 1..Len(ids) : IsPrereleaseId(ids[i])

AllBuildIds(ids) == \A i \in 1..Len(ids) : IsBuildId(ids[i])

\* the three groups of the version expression: MAJOR.MINOR.PATCH, the
\* prerelease identifiers (hasPre) and the build identifiers (hasBuild)
SemverOfGroups(parts, hasPre, preIds, hasBuild, buildIds) ==
  IF /\ Len(parts) = 3
     /\ AllNumericIds(parts)
     /\ (hasPre => AllPrereleaseIds(preIds))
     /\ (hasBuild => AllBuildIds(buildIds))
    THEN [ok |-> TRUE, major |-> DecimalValue(parts[1]),
          minor |-> DecimalValue(parts[2]), patch |-> DecimalValue(parts[3]),
          prerelease |-> IF hasPre THEN preIds ELSE << >>]
    ELSE NotSemver

\* head is the text before the build part, h the index of its first "-"
SemverOfHead(head, h, hasBuild, buildIds) ==
  SemverOfGroups(Split(IF h = 0 THEN head ELSE SubSeq(head, 1, h - 1), "."),
                 h # 0,
                 Split(IF h = 0 THEN << >> ELSE SubSeq(head, h + 1, Len(head)), "."),
                 hasBuild, buildIds)

SemverBeforeBuild(head, hasBuild, buildIds) ==
  SemverOfHead(head, IndexOf(head, "-"), hasBuild, buildIds)

\* u is the text after the optional v, p the index of its first "+"
SemverOfPlain(u, p) ==
  SemverBeforeBuild(IF p = 0 THEN u ELSE SubSeq(u, 1, p - 1),
                    p # 0,
                    Split(IF p = 0 THEN << >> ELSE SubSeq(u, p + 1, Len(u)), "."))

SemverAfterV(u) == SemverOfPlain(u, IndexOf(u, "+"))

SemverOfTrimmed(t) ==
  SemverAfterV(IF t # << >> /\ Head(t) = "v" THEN Tail(t) ELSE t)

\* new SemVer(version): trim, then ^v?MAJOR.MINOR.PATCH(-PRERELEASE)?(+BUILD)?$
SemverParse(s) == SemverOfTrimmed(Trim(s))

\* semver.valid(v) is used for its truthiness only
SemverValid(s) == SemverParse(s).ok

Sign(a, b) == IF a < b THEN 0 - 1 ELSE IF a > b THEN 1 ELSE 0

\* a < b for JavaScript strings (comparison by code unit)
RECURSIVE StrLess(_, _)
StrLess(a, b) ==
  IF b = << >> THEN FALSE
  ELSE IF a = << >> THEN TRUE
  ELSE IF Head(a) # Head(b) THEN CharCode(Head(a)) < CharCode(Head(b))
  ELSE StrLess(Tail(a), Tail(b))

\* compareIdentifiers: numeric identifiers by value and below all others
CompareIdentifiers(a, b) ==
  IF AllDigits(a) /\ AllDigits(b) THEN Sign(DecimalValue(a), DecimalValue(b))
  ELSE IF a = b THEN 0
  ELSE IF AllDigits(a) THEN 0 - 1
  ELSE IF AllDigits(b) THEN 1
  ELSE IF StrLess(a, b) THEN 0 - 1 ELSE 1

RECURSIVE ComparePreFrom(_, _, _)
ComparePreFrom(a, b, i) ==
  IF i > Len(a) /\ i > Len(b) THEN 0
  ELSE IF i > Len(b) THEN 1
  ELSE IF i > Len(a) THEN 0 - 1
  ELSE IF CompareIdentifiers(a[i], b[i]) = 0 THEN ComparePreFrom(a, b, i + 1)
  ELSE CompareIdentifiers(a[i], b[i])

\* SemVer.comparePre: a version without prerelease is above one with
ComparePre(a, b) ==
  IF a = << >> /\ b # << >> THEN 1
  ELSE IF a # << >> /\ b = << >> THEN 0 - 1
  ELSE ComparePreFrom(a, b, 1)

\* SemVer.compare of two parsed versions; build metadata is ignored
SemverCompare(x, y) ==
  IF x.major # y.major THEN Sign(x.major, y.major)
  ELSE IF x.minor # y.minor THEN Sign(x.minor, y.minor)
  ELSE IF x.patch # y.patch THEN Sign(x.patch, y.patch)
  ELSE ComparePre(x.prerelease, y.prerelease)

\* semver.lt(a, b), defined when both parse (it throws otherwise)
SemverLt(a, b) == SemverCompare(SemverParse(a), SemverParse(b)) < 0

SemverGt(a, b) == SemverCompare(SemverParse(a), SemverParse(b)) > 0

\* semver.eq(a, b), defined when both parse
SemverEq(a, b) == SemverCompare(SemverParse(a), SemverParse(b)) = 0

(***************************************************************************)
(* Version Resolver: getNewVersion's validate callback and the bump        *)
(* strings of versionMenu                                                  *)
(***************************************************************************)

\* a string variable that holds undefined, and a null result
Undefined == << "<undefined>" >>

Null == << "<null>" >>

Thrown == << "<throw>" >>

\* Validate with the operands of the comparison exchanged
ValidateReversedCompare(value, previousVersions, currentVersion, isFirstEnter) ==
  IF value = << >> THEN "Accept"
  ELSE IF ~SemverValid(value) THEN "InvalidFormat"
  ELSE IF Includes(previousVersions, value) THEN "DuplicateVersion"
  ELSE IF isFirstEnter THEN "Accept"
  ELSE IF ~SemverValid(currentVersion) THEN "Throw"
  ELSE IF SemverLt(currentVersion, value) THEN "NotGreaterThanCurrent"
  ELSE "Accept"

\* Validate without the includes() test
ValidateNoDuplicateCheck(value, previousVersions, currentVersion, isFirstEnter) ==
  IF value = << >> THEN "Accept"
  ELSE IF ~SemverValid(value) THEN "InvalidFormat"
  ELSE IF isFirstEnter THEN "Accept"
  ELSE IF ~SemverValid(currentVersion) THEN "Throw"
  ELSE IF SemverLt(value, currentVersion) THEN "NotGreaterThanCurrent"
  ELSE "Accept"

\* validate: (value) => true | message; "Throw" when semver.lt raises on a
\* current version that does not parse
Validate(value, previousVersions, currentVersion, isFirstEnter) ==
  IF value = << >> THEN "Accept"
  ELSE IF ~SemverValid(value) THEN "InvalidFormat"
  ELSE IF Includes(previousVersions, value) THEN "DuplicateVersion"
  ELSE IF isFirstEnter THEN "Accept"
  ELSE IF ~SemverValid(currentVersion) THEN "Throw"
  ELSE IF SemverLt(value, currentVersion) THEN "NotGreaterThanCurrent"
  ELSE "Accept"

NumberAt(parts, i) ==
  IF i <= Len(parts) THEN Number(parts[i]) ELSE UndefinedNum

DestructureThree(parts) ==
  [major |-> NumberAt(parts, 1), minor |-> NumberAt(parts, 2),
   patch |-> NumberAt(parts, 3)]

\* const [major, minor, patch] = currentVersion.split('.').map(Number)
VersionParts(currentVersion) == DestructureThree(Split(currentVersion, "."))

\* `${major}.${minor}.${patch + 1}`
PatchString(p) ==
  NumToString(p.major) \o Dot \o NumToString(p.minor) \o Dot
    \o NumToString(NumPlus(p.patch, 1))

\* `${major}.${minor + 1}.0`
MinorString(p) ==
  NumToString(p.major) \o Dot \o NumToString(NumPlus(p.minor, 1)) \o Dot
    \o << "0" >>

\* `${major + 1}.0.0`
MajorString(p) ==
  NumToString(NumPlus(p.major, 1)) \o Dot \o << "0" >> \o Dot \o << "0" >>

\* a minor bump that forgets to reset the patch number
MinorStringKeepsPatch(p) ==
  NumToString(p.major) \o Dot \o NumToString(NumPlus(p.minor, 1)) \o Dot
    \o NumToString(p.patch)

BumpPatch(currentVersion) == PatchString(VersionParts(currentVersion))

BumpMinorKeepsPatch(currentVersion) ==
  MinorStringKeepsPatch(VersionParts(currentVersion))

BumpMinor(currentVersion) == MinorString(VersionParts(currentVersion))

BumpMajor(currentVersion) == MajorString(VersionParts(currentVersion))

FirstColumns(lines) == [i \in 1..Len(lines) |-> Split(lines[i], "\t")[1]]

\* releasesOutput ? releasesOutput.split('\n').map(line => line.split('\t')[0]) : []
ParseReleases(releasesOutput) ==
  IF releasesOutput = << >> THEN << >>
  ELSE FirstColumns(Split(releasesOutput, "\n"))

\* tagOutput ? tagOutput.split('\n') : []
ParseTags(tagOutput) ==
  IF tagOutput = << >> THEN << >> ELSE Split(tagOutput, "\n")

(***************************************************************************)
(* Changelog Section Extractor.  A changelog is the mdast root that remark *)
(* parses: a sequence of top-level nodes with their type, heading depth,   *)
(* start line and (first child) text.                                      *)
(***************************************************************************)

Heading(depth, line, text) ==
  [type |-> "heading", depth |-> depth, line |-> line, childType |-> "text",
   value |-> text]

Paragraph(line, text) ==
  [type |-> "paragraph", depth |-> 0, line |-> line, childType |-> "text",
   value |-> text]

\* the inner loop: nodes after the marker up to the next heading of depth <= 1
RECURSIVE SectionFrom(_, _)

\* SectionFrom that lets a heading of any depth end the section
SectionFromStopsAtAnyHeading(nodes, j) ==
  IF j > Len(nodes) THEN << >>
  ELSE IF nodes[j].type = "heading" THEN << >>
  ELSE << nodes[j] >> \o SectionFrom(nodes, j + 1)

SectionFrom(nodes, j) ==
  IF j > Len(nodes) THEN << >>
  ELSE IF nodes[j].type = "heading" /\ nodes[j].depth <= 1 THEN << >>
  ELSE << nodes[j] >> \o SectionFrom(nodes, j + 1)

RECURSIVE Hashes(_)
Hashes(n) == IF n = 0 THEN << >> ELSE << "#" >> \o Hashes(n - 1)

\* remark-stringify of one top-level node
NodeToMarkdown(node) ==
  IF node.type = "heading" THEN Hashes(node.depth) \o << " " >> \o node.value
  ELSE node.value

\* String(result): blocks separated by a blank line, a final newline, and the
\* empty string for a root without children
RECURSIVE Stringify(_)
Stringify(nodes) ==
  IF nodes = << >> THEN << >>
  ELSE IF Len(nodes) = 1 THEN NodeToMarkdown(nodes[1]) \o << "\n" >>
  ELSE NodeToMarkdown(nodes[1]) \o << "\n", "\n" >> \o Stringify(Tail(nodes))

\* the part of the loop body of traverse before semver.eq
IsVersionHeading(node) ==
  /\ node.type = "heading"
  /\ node.depth = 1
  /\ node.line = 1
  /\ node.childType = "text"
  /\ SemverValid(Trim(node.value))

\* index of the first node that passes all guards of the loop, 0 if none;
\* semver.eq raises when the requested version does not parse (result -1)
RECURSIVE FirstMarkerFrom(_, _, _)
FirstMarkerFrom(nodes, version, i) ==
  IF i > Len(nodes) THEN 0
  ELSE IF ~IsVersionHeading(nodes[i]) THEN FirstMarkerFrom(nodes, version, i + 1)
  ELSE IF ~SemverValid(version) THEN 0 - 1
  ELSE IF SemverEq(Trim(nodes[i].value), version) THEN i
  ELSE FirstMarkerFrom(nodes, version, i + 1)

SectionAt(nodes, i) ==
  IF i < 0 THEN Thrown
  ELSE IF i = 0 THEN Null
  ELSE Stringify(SectionFrom(nodes, i + 1))

\* traverse(version): the serialized section of the first matching marker,
\* or null
Traverse(nodes, version) == SectionAt(nodes, FirstMarkerFrom(nodes, version, 1))

\* NullIfFalsy that lets the empty string through
NullIfFalsyKeepsEmpty(result) == result

\* `if (!result) return null`
NullIfFalsy(result) == IF result = << >> THEN Null ELSE result

\* extractMatchedVersionSection: a falsy result (null or "") becomes null
ExtractMatchedVersionSection(nodes, version) ==
  NullIfFalsy(Traverse(nodes, version))

(***************************************************************************)
(* Version files: a JSON document is the ordered list of its members, or   *)
(* text that JSON.parse rejects                                            *)
(***************************************************************************)

JsonText(pairs) == [kind |-> "json", pairs |-> pairs]

BadJson == [kind |-> "bad", pairs |-> << >>]

\* a file the command has not looked at yet: what it holds is settled by the
\* environment when the command first reads it
UnreadFile == [kind |-> "unread", pairs |-> << >>]

HasKey(obj, k) == \E i \in 1..Len(obj) : obj[i][1] = k

\* obj[k] = v: an own property keeps its place, a new one is appended
ObjSet(obj, k, v) ==
  IF HasKey(obj, k)
    THEN [i \in 1..Len(obj) |-> IF obj[i][1] = k THEN << k, v >> ELSE obj[i]]
    ELSE Append(obj, << k, v >>)

ObjGet(obj, k) ==
  IF HasKey(obj, k)
    THEN obj[CHOOSE i \in 1..Len(obj) : obj[i][1] = k][2]
    ELSE Undefined

\* JSON.parse of an object: a repeated member name keeps the last value
RECURSIVE JsonParsePairs(_, _)
JsonParsePairs(pairs, acc) ==
  IF pairs = << >> THEN acc
  ELSE JsonParsePairs(Tail(pairs), ObjSet(acc, Head(pairs)[1], Head(pairs)[2]))

JsonParse(text) == JsonParsePairs(text.pairs, << >>)

\* prettier.format(JSON.stringify(data), {parser: 'json'})
JsonFormat(obj) == JsonText(obj)

\* WithRelease that serializes a new object holding the version only
WithReleaseFreshObject(text, release) ==
  JsonFormat(<< << "version", release >> >>)

\* the text changeReleaseInJson computes for a readable document
WithRelease(text, release) == JsonFormat(ObjSet(JsonParse(text), "version", release))

(***************************************************************************)
(* Release notes                                                           *)
(***************************************************************************)

\* `${changelogSection}` of a string | null
TemplateString(x) == IF x = Null THEN << "n", "u", "l", "l" >> ELSE x

\* `${repoUrl}/compare/${previousVersion}...${version}`
FullChangelogUrl(repoUrl, previousVersion, version) ==
  repoUrl \o << "/", "compare", "/" >> \o previousVersion
    \o << ".", ".", "." >> \o version

\* `${changelogSection}\n\n**Full Changelog**: ${fullChangelogUrl}`
ReleaseBody(changelogSection, repoUrl, previousVersion, version) ==
  TemplateString(changelogSection) \o << "\n", "\n", "**Full Changelog**: " >>
    \o FullChangelogUrl(repoUrl, previousVersion, version)

(***************************************************************************)
(* Program constants and the bounded environment                           *)
(***************************************************************************)

MANIFEST_PATH == << "manifest.json" >>

PACKAGE_PATH == << "package.json" >>

MAIN_BRANCHES == << << "m", "a", "i", "n" >>, << "m", "a", "s", "t", "e", "r" >> >>

\* largest component of the versions an operator types; largest number of
\* Retry choices in one run
MaxComp == 1

MaxRetry == 1

V(a, b, c) ==
  DecimalDigits(a) \o Dot \o DecimalDigits(b) \o Dot \o DecimalDigits(c)

NL == << "\n" >>

\* one line of `gh release list`: the title column, a tab, the other columns
GhLine(title) == title \o << "\t", "a" >>

\* the stand-in for the release list under dry-run: '1.0.0\t...'
DryRunReleasesOutput == V(1, 0, 0) \o << "\t", ".", ".", "." >>

\* what `gh release list --limit 100` may print (newest release first)
GhOutputs ==
  { << >>,
    GhLine(V(1, 0, 0)) \o NL,
    GhLine(V(1, 0, 1)) \o NL \o GhLine(V(1, 1, 0)) \o NL,
    GhLine(V(2, 3, 5)) \o NL,
    GhLine(<< "R", "e", "l", "e", "a", "s", "e", " " >> \o V(1, 0, 0)) \o NL }

\* what `git tag` may print (refnames in lexicographic order)
TagOutputs ==
  { << >>,
    V(1, 0, 0) \o NL,
    V(1, 10, 0) \o NL \o V(1, 9, 0) \o NL,
    << "v" >> \o V(1, 0, 0) \o NL,
    V(1, 0, 0) \o NL \o << "l", "a", "t", "e", "s", "t" >> \o NL }

\* what the operator may type at the manual-entry prompt
ManualInputs ==
  { V(a, b, c) : a \in 0..MaxComp, b \in 0..MaxComp, c \in 0..MaxComp }
    \cup { << >>,
           V(1, 2, 3),
           << "v" >> \o V(1, 0, 0),
           V(1, 0, 0) \o << "+", "b" >>,
           V(1, 0, 1) \o << "-", "b" >>,
           << " " >> \o V(1, 0, 1),
           << "1", ".", "0" >>,
           << "0", "1", ".", "0", ".", "0" >>,
           << "l", "a", "t", "e", "s", "t" >> }

\* what `git rev-parse --abbrev-ref HEAD` may print
BranchOutputs ==
  { << "m", "a", "i", "n" >> \o NL,
    << "m", "a", "s", "t", "e", "r" >> \o NL,
    << "d", "e", "v" >> \o NL }

ExampleRepoUrl == << "https://example.com/org/repo" >>

ChangelogDoc(nodes) == [kind |-> "doc", nodes |-> nodes]

NoChangelog == [kind |-> "nofile", nodes |-> << >>]

UnreadChangelog == [kind |-> "unread", nodes |-> << >>]

\* CHANGELOG.md as the operator may have left it
\* a section with a depth-2 heading inside, followed by an older section
NestedHeadingChangelog ==
  ChangelogDoc(<< Heading(1, 1, V(1, 0, 1)), Paragraph(3, << "a" >>),
                  Heading(2, 5, << "s" >>), Paragraph(7, << "b" >>),
                  Heading(1, 9, V(1, 0, 0)), Paragraph(11, << "d" >>) >>)

\* `# 1.0.0` and `# 1.1.0` in that order, each followed by one paragraph
TwoReleaseChangelog ==
  ChangelogDoc(<< Heading(1, 1, V(1, 0, 0)), Paragraph(3, << "a" >>),
                  Heading(1, 5, V(1, 1, 0)), Paragraph(7, << "b" >>) >>)

\* `# [1.2.3]` without a link definition: the heading's only child is the
\* text "[1.2.3]"
BracketedChangelog ==
  ChangelogDoc(<< Heading(1, 1, << "[" >> \o V(1, 2, 3) \o << "]" >>),
                  Paragraph(3, << "a" >>) >>)

\* `# 2.0.0` followed by the paragraph `Fixed bug X`
FixedBugChangelog ==
  ChangelogDoc(<< Heading(1, 1, V(2, 0, 0)), Paragraph(3, << "Fixed bug X" >>) >>)

\* `# 1.2.30`
LongerPatchChangelog ==
  ChangelogDoc(<< Heading(1, 1, V(1, 2, 30)), Paragraph(3, << "a" >>) >>)

Changelogs ==
  { NestedHeadingChangelog,
    ChangelogDoc(<< Paragraph(1, << "i" >>), Heading(1, 3, V(1, 0, 1)),
                    Paragraph(5, << "a" >>) >>),
    ChangelogDoc(<< Heading(1, 1, V(1, 0, 1)) >>),
    ChangelogDoc(<< Heading(1, 1, V(1, 1, 0)), Paragraph(3, << "a" >>),
                    Heading(1, 5, V(1, 0, 1)), Paragraph(7, << "b" >>) >>),
    TwoReleaseChangelog, BracketedChangelog, LongerPatchChangelog,
    FixedBugChangelog,
    NoChangelog }

\* package.json and manifest.json as they may be on disk
PackageFiles ==
  { JsonText(<< << "name", << "p" >> >>, << "version", V(1, 0, 0) >>,
                << "main", << "m" >> >> >>),
    JsonText(<< << "version", V(0, 9, 0) >>, << "name", << "p" >> >>,
                << "version", V(1, 0, 0) >> >>),
    BadJson }

ManifestFiles ==
  { JsonText(<< << "id", << "p" >> >>, << "version", V(1, 0, 0) >> >>),
    JsonText(<< << "id", << "p" >> >> >>),
    BadJson }

(***************************************************************************)
(* State                                                                   *)
(***************************************************************************)

VARIABLES
  pc,              \* position of the release command
  isDryRun,        \* the module-level simulation flag
  inCatch,         \* getVersion is in its git-tag fallback
  releases,        \* the existing versions of the current getVersion call
  currentVersion,  \* the baseline of the current getVersion call
  isFirstEnter,    \* third argument of getNewVersion
  answer,          \* last choice made in the version menu, "none" before
  lastInput,       \* last value submitted at the manual-entry prompt
  lastValidation,  \* what the validate callback answered for it
  version,         \* RELEASE_VERSION of the current loop iteration
  previousVersion, \* previousVersion of the current loop iteration
  files,           \* contents of package.json and manifest.json on disk
  readText,        \* what changeReleaseInJson read from each of them
  distExists,      \* the build output directory exists: "unknown", "yes", "no"
  changelog,       \* CHANGELOG.md
  currentBranch,   \* the branch read at VerifyBranch
  repoUrl,         \* result of getRepoUrl
  releaseBody,     \* notes composed by createGitHubRelease
  trace,           \* steps taken, commands run and lines logged, in order
  exitCode,        \* -1 while running
  sigintHandlers,  \* listeners registered with process.on('SIGINT')
  retries,         \* Retry choices so far
  root,            \* result of findUpSync: "unknown", "found", "none"
  subcommand,      \* the subcommand on the command line, "unknown" before
  dryRunOption,    \* --dry-run was given on the command line
  console,         \* lines and prompts shown to the operator, in order
  obsidianPath,    \* process.env.OBSIDIAN_PATH as getObsidianConfig read it
  processes,       \* names returned by psList()
  spawned          \* child processes created by spawn(), in order

selVars == << inCatch, releases, currentVersion, isFirstEnter, answer,
             lastInput, lastValidation >>

ctxVars == << version, previousVersion >>

envVars == << isDryRun, changelog, files, readText, distExists >>

pubVars == << currentBranch, repoUrl, releaseBody >>

cliVars == << root, subcommand, dryRunOption, obsidianPath, processes,
             spawned >>

vars == << pc, isDryRun, inCatch, releases, currentVersion, isFirstEnter,
           answer, lastInput, lastValidation, version, previousVersion, files, readText,
           distExists, changelog,
           currentBranch, repoUrl, releaseBody, trace, exitCode,
           sigintHandlers, retries, root, subcommand, dryRunOption, console,
           obsidianPath, processes, spawned >>

Ev(op, arg, ok) == [op |-> op, arg |-> arg, ok |-> ok]

\* logAction under dry-run and the other console lines the claims refer to
Log(text) == Ev("log", text, TRUE)

Init ==
  /\ pc = "main"
  /\ root = "unknown"
  /\ subcommand = "unknown"
  /\ dryRunOption = FALSE
  /\ console = << >>
  /\ obsidianPath = Undefined
  /\ processes = << >>
  /\ spawned = << >>
  /\ isDryRun = FALSE
  /\ inCatch = FALSE
  /\ releases = << >>
  /\ currentVersion = Undefined
  /\ isFirstEnter = FALSE
  /\ answer = "none"
  /\ lastInput = Undefined
  /\ lastValidation = "none"
  /\ version = Undefined
  /\ previousVersion = Undefined
  /\ files = [f \in {PACKAGE_PATH, MANIFEST_PATH} |-> UnreadFile]
  /\ readText = [f \in {PACKAGE_PATH, MANIFEST_PATH} |-> UnreadFile]
  /\ distExists = "unknown"
  /\ changelog = UnreadChangelog
  /\ currentBranch = Undefined
  /\ repoUrl = Undefined
  /\ releaseBody = Undefined
  /\ trace = << >>
  /\ exitCode = 0 - 1
  /\ sigintHandlers = 0
  /\ retries = 0

\* process.exit(code), also the exit of the top-level catch after a throw
Exit(code) == pc' = "exited" /\ exitCode' = code

(***************************************************************************)
(* Command line: project root and dispatch                                 *)
(***************************************************************************)

\* findUpSync('package.json'); without a root the process exits at once
FindRoot ==
  /\ pc = "main"
  /\ \E found \in BOOLEAN :
       IF found THEN root' = "found" /\ pc' = "dispatch" /\ exitCode' = exitCode
                ELSE root' = "none" /\ Exit(1)
  /\ UNCHANGED << selVars, ctxVars, envVars, pubVars, trace, sigintHandlers,
                  retries, subcommand, dryRunOption, console, obsidianPath,
                  processes, spawned >>

\* command lines: process.argv from index 2 on
CommandLines ==
  { << "start" >>, << "release" >>, << "release", "--dry-run" >>,
    << "other" >> }

\* what both entry points record of the command line
ReadArgv(argv) ==
  /\ subcommand' = argv[1]
  /\ dryRunOption' = Includes(argv, "--dry-run")

UnknownCommandLine == "error: unknown command"

\* program.parse(): `start`, `release [--dry-run]` with release(options.dryRun),
\* or anything else, which the argument parser refuses with exit code 1
Program ==
  /\ pc = "dispatch"
  /\ \E argv \in CommandLines :
       /\ ReadArgv(argv)
       /\ IF argv[1] = "start"
            THEN /\ pc' = "startObsidian" /\ exitCode' = exitCode
                 /\ console' = console /\ isDryRun' = isDryRun
            ELSE IF argv[1] = "release"
              THEN /\ pc' = "checkGh" /\ exitCode' = exitCode
                   /\ console' = console
                   /\ isDryRun' = dryRunOption'
              ELSE /\ Exit(1) /\ isDryRun' = isDryRun
                   /\ console' = Append(console, UnknownCommandLine)
  /\ UNCHANGED << selVars, ctxVars, changelog, files, readText, distExists,
                  pubVars, trace, sigintHandlers, retries, root, obsidianPath,
                  processes, spawned >>

UsageLine == "Usage: obsidian-cli <start|release>"

\* the switch on process.argv[2]: release() is called without an argument,
\* so isDryRunOption is undefined and the run is a real one; the default
\* branch prints the usage line and the process ends with code 0
Main ==
  /\ pc = "dispatch"
  /\ \E argv \in CommandLines :
       /\ ReadArgv(argv)
       /\ IF argv[1] = "start"
            THEN /\ pc' = "startObsidian" /\ exitCode' = exitCode
                 /\ console' = console
            ELSE IF argv[1] = "release"
              THEN /\ pc' = "checkGh" /\ exitCode' = exitCode
                   /\ console' = console
              ELSE /\ pc' = "returned" /\ exitCode' = 0
                   /\ console' = Append(console, UsageLine)
  /\ isDryRun' = FALSE
  /\ UNCHANGED << selVars, ctxVars, changelog, files, readText, distExists,
                  pubVars, trace, sigintHandlers, retries, root, obsidianPath,
                  processes, spawned >>

(***************************************************************************)
(* The start command                                                       *)
(***************************************************************************)

\* values of OBSIDIAN_PATH: unset, empty, a path
ObsidianPaths == { Undefined, << >>, << "/opt/obsidian" >> }

Obsidian == << "o", "b", "s", "i", "d", "i", "a", "n" >>

\* process names psList may report
ProcessNames ==
  { << "b", "a", "s", "h" >>,
    << "o", "b", "s", "i", "d", "i", "a" >>,
    << "O", "b", "s", "i", "d", "i", "a", "n" >>,
    << "x", "O", "B", "S", "I", "D", "I", "A", "N", "x" >> }

ProcessLists ==
  { << >> } \cup { << a >> : a \in ProcessNames }
            \cup { << a, b >> : a \in ProcessNames, b \in ProcessNames }

DebugPortArgs == << "--remote-debugging-port=9222" >>

\* the null that getObsidianConfig returns
NoConfig == [command |-> Null, args |-> << >>]

\* getObsidianConfig that falls back to a launcher of the platform
GetObsidianConfigPlatformDefault(customPath) ==
  IF customPath # Undefined /\ customPath # << >>
    THEN [command |-> customPath, args |-> DebugPortArgs]
    ELSE [command |-> << "flatpak" >>,
          args |-> << "run", "md.obsidian.Obsidian" >> \o DebugPortArgs]

\* getObsidianConfig: null unless OBSIDIAN_PATH is a non-empty string
GetObsidianConfig(customPath) ==
  IF customPath # Undefined /\ customPath # << >>
    THEN [command |-> customPath, args |-> DebugPortArgs]
    ELSE NoConfig

\* IsObsidianRunning that compares the names as they are
IsObsidianRunningCaseSensitive(procs) ==
  \E i \in 1..Len(procs) : StrIncludes(procs[i], Obsidian)

\* processes.some((p) => p.name.toLowerCase().includes('obsidian'))
IsObsidianRunning(procs) ==
  \E i \in 1..Len(procs) : StrIncludes(ToLowerCase(procs[i]), Obsidian)

GuidanceLines ==
  << "Cannot detect Obsidian installation",
     "Set OBSIDIAN_PATH environment variable:" >>

\* startObsidian up to the configuration test
StartObsidian ==
  /\ pc = "startObsidian"
  /\ \E customPath \in ObsidianPaths :
       /\ obsidianPath' = customPath
       /\ IF GetObsidianConfig(customPath) = NoConfig
            THEN /\ console' = console \o GuidanceLines
                 /\ pc' = "returned"
                 /\ exitCode' = 0
            ELSE /\ console' = console
                 /\ pc' = "psList"
                 /\ exitCode' = exitCode
  /\ UNCHANGED << selVars, ctxVars, envVars, pubVars, trace, sigintHandlers,
                  retries, root, subcommand, dryRunOption, processes, spawned >>

\* await isObsidianRunning(); a rejection of psList leaves startObsidian and
\* reaches the handler of the command, which exits with code 1
CheckRunning ==
  /\ pc = "psList"
  /\ \/ Exit(1) /\ UNCHANGED << processes, console >>
     \/ \E out \in ProcessLists :
          /\ processes' = out
          /\ IF IsObsidianRunning(out)
               THEN /\ console' = Append(console, "Obsidian already running")
                    /\ pc' = "returned"
                    /\ exitCode' = 0
               ELSE /\ console' = console
                    /\ pc' = "spawn"
                    /\ exitCode' = exitCode
  /\ UNCHANGED << selVars, ctxVars, envVars, pubVars, trace, sigintHandlers,
                  retries, root, subcommand, dryRunOption, obsidianPath, spawned >>

\* the child process spawn() creates from the configuration
ChildOf(config, started) ==
  [command |-> config.command, args |-> config.args, detached |-> TRUE,
   stdio |-> "ignore", unref |-> TRUE, started |-> started]

\* the try block around spawn: spawn may throw at once, start the child, or
\* return a child that could not be started and reports it by an error event
SpawnObsidian ==
  /\ pc = "spawn"
  /\ \E outcome \in {"started", "throws", "notStarted"} :
       IF outcome = "throws"
         THEN /\ spawned' = spawned
              /\ console' = console \o << "Failed to start Obsidian",
                                           "Try setting OBSIDIAN_PATH manually" >>
              /\ pc' = "returned"
              /\ exitCode' = 0
         ELSE /\ spawned' = Append(spawned,
                                   ChildOf(GetObsidianConfig(obsidianPath),
                                           outcome = "started"))
              /\ console' = Append(console,
                                   "Starting Obsidian with debug port 9222")
              /\ IF outcome = "started"
                   THEN pc' = "returned" /\ exitCode' = 0
                   ELSE pc' = "spawnError" /\ exitCode' = exitCode
  /\ UNCHANGED << selVars, ctxVars, envVars, pubVars, trace, sigintHandlers,
                  retries, root, subcommand, dryRunOption, obsidianPath,
                  processes >>

\* the 'error' event of a child that could not be started has no listener:
\* the process ends with an uncaught exception
SpawnErrorEvent ==
  /\ pc = "spawnError"
  /\ Exit(1)
  /\ UNCHANGED << selVars, ctxVars, envVars, pubVars, trace, sigintHandlers,
                  retries, cliVars, console >>

(***************************************************************************)
(* release(): environment check and SelectVersion (getVersion,             *)
(* versionMenu, getNewVersion)                                             *)
(***************************************************************************)

\* checkGhCli: `gh --version` runs also under dry-run
GhMissingHint ==
  "Github Cli (GH) was not found. Install it: https://cli.github.com/"

CheckGhCli ==
  /\ pc = "checkGh"
  /\ \E ok \in BOOLEAN :
       IF ok THEN pc' = "getVersion" /\ exitCode' = exitCode /\ console' = console
             ELSE Exit(1) /\ console' = Append(console, GhMissingHint)
  /\ UNCHANGED << selVars, ctxVars, envVars, pubVars, trace, sigintHandlers,
                  retries,
                  cliVars >>

\* the first prompt of a getVersion call: the version menu, or the manual
\* entry when there is no version yet
SelectionPrompt == "select version"

\* the tail of both branches of getVersion: first entry or the version menu
EnterSelection(list, current) ==
  /\ releases' = list
  /\ currentVersion' = current
  /\ isFirstEnter' = (Len(list) = 0)
  /\ answer' = "none"
  /\ lastInput' = Undefined
  /\ lastValidation' = "none"
  /\ IF Len(list) = 0
       THEN pc' = "manual" /\ sigintHandlers' = sigintHandlers
       ELSE pc' = "menu" /\ sigintHandlers' = sigintHandlers + 1
  /\ console' = Append(console, SelectionPrompt)

\* const currentVersion = releases[0]
EnterWithReleases(list) ==
  EnterSelection(list, IF Len(list) = 0 THEN Undefined ELSE list[1])

\* const currentVersion = tags[tags.length - 1]
EnterWithTags(tags) ==
  EnterSelection(tags, IF Len(tags) = 0 THEN Undefined ELSE tags[Len(tags)])

\* getVersion, try block: the release list, newest first, baseline releases[0]
GetVersion ==
  /\ pc = "getVersion"
  /\ \E out \in (IF isDryRun THEN {DryRunReleasesOutput}
                             ELSE {Trim(o) : o \in GhOutputs} \cup {Thrown}) :
       IF out = Thrown
         THEN /\ pc' = "fallback"
              /\ inCatch' = TRUE
              /\ UNCHANGED << releases, currentVersion, isFirstEnter, answer,
                              lastInput, lastValidation, sigintHandlers,
                              console >>
         ELSE /\ inCatch' = FALSE
              /\ EnterWithReleases(ParseReleases(out))
  /\ trace' = Append(trace, Ev("SelectVersion", << >>, TRUE))
  /\ UNCHANGED << ctxVars, envVars, pubVars, exitCode, retries,
                  cliVars >>

\* getVersion, catch block: git tags, baseline tags[tags.length - 1]
GetVersionFallback ==
  /\ pc = "fallback"
  /\ \E out \in (IF isDryRun THEN {<< >>}
                             ELSE {Trim(o) : o \in TagOutputs} \cup {Thrown}) :
       IF out = Thrown
         THEN /\ Exit(1)
              /\ UNCHANGED << selVars, sigintHandlers,
                              console >>
         ELSE /\ exitCode' = exitCode
              /\ inCatch' = TRUE
              /\ EnterWithTags(ParseTags(out))
  /\ UNCHANGED << ctxVars, envVars, pubVars, trace, retries,
                  cliVars >>

\* answers '1', '2', '3': getVersion returns the bump string
ReturnFromMenu(choice, v) ==
  /\ pc = "menu"
  /\ answer' = choice
  /\ version' = v
  /\ previousVersion' = currentVersion
  /\ pc' = "confirm"
  /\ UNCHANGED << inCatch, releases, currentVersion, isFirstEnter, lastInput,
                  lastValidation, envVars, pubVars, trace, exitCode,
                  sigintHandlers, retries,
                  cliVars, console >>

ChoosePatch == ReturnFromMenu("1", BumpPatch(currentVersion))

ChooseMinor == ReturnFromMenu("2", BumpMinor(currentVersion))

ChooseMajor == ReturnFromMenu("3", BumpMajor(currentVersion))

\* the other answers leave the selection as it is
MenuGoes(choice, nextPc) ==
  /\ pc = "menu"
  /\ answer' = choice
  /\ pc' = nextPc
  /\ UNCHANGED << inCatch, releases, currentVersion, isFirstEnter, lastInput,
                  lastValidation, ctxVars, envVars, pubVars, trace, exitCode,
                  sigintHandlers, retries,
                  cliVars, console >>

\* answer '4': getNewVersion(previousVersions, currentVersion, false)
ChooseManual == MenuGoes("4", "manual")

\* answer '5': print the list and wait for Enter
ChooseView == MenuGoes("5", "viewPrev")

\* ViewBack whose Press-Enter prompt never resolves
ViewBackHangs ==
  /\ pc = "viewPrev"
  /\ pc' = "waiting"
  /\ UNCHANGED << selVars, ctxVars, envVars, pubVars, trace, exitCode,
                  sigintHandlers, retries, cliVars, console >>

\* ViewBack that takes the last listed version as the new baseline
ViewBackRebases ==
  /\ pc = "viewPrev"
  /\ pc' = "menu"
  /\ currentVersion' = releases[Len(releases)]
  /\ UNCHANGED << inCatch, releases, isFirstEnter, answer, lastInput,
                  lastValidation, ctxVars, envVars, pubVars, trace, exitCode,
                  sigintHandlers, retries, cliVars, console >>

\* Enter at "Press Enter to go back to the menu...": the loop shows the menu
\* again
ViewBack ==
  /\ pc = "viewPrev"
  /\ pc' = "menu"
  /\ UNCHANGED << selVars, ctxVars, envVars, pubVars, trace, exitCode,
                  sigintHandlers, retries,
                  cliVars, console >>

\* ChooseExit that reports the abort as a failure
ChooseExitFails ==
  /\ pc = "menu"
  /\ answer' = "6"
  /\ Exit(1)
  /\ UNCHANGED << inCatch, releases, currentVersion, isFirstEnter, lastInput,
                  lastValidation, ctxVars, envVars, pubVars, trace,
                  sigintHandlers, retries,
                  cliVars, console >>

\* answer '6'
ChooseExit ==
  /\ pc = "menu"
  /\ answer' = "6"
  /\ Exit(0)
  /\ UNCHANGED << inCatch, releases, currentVersion, isFirstEnter, lastInput,
                  lastValidation, ctxVars, envVars, pubVars, trace,
                  sigintHandlers, retries,
                  cliVars, console >>

\* an exception inside getVersion's try block is caught by its catch block;
\* one raised in the catch block leaves release() and reaches the top-level
\* handler, which exits with code 1
RaiseInGetVersion ==
  /\ IF inCatch
       THEN Exit(1) /\ inCatch' = inCatch
       ELSE pc' = "fallback" /\ inCatch' = TRUE /\ exitCode' = exitCode
  /\ UNCHANGED << releases, currentVersion, isFirstEnter, answer, lastInput,
                  lastValidation, ctxVars, envVars, pubVars, trace,
                  sigintHandlers, retries,
                  cliVars, console >>

\* a prompt of the version selection rejects (closed input stream)
SelectPromptRejects ==
  /\ pc \in {"menu", "viewPrev", "manual"}
  /\ RaiseInGetVersion

\* the validate callback refuses the input: the prompt stays open
ManualReject ==
  /\ pc = "manual"
  /\ \E value \in ManualInputs :
       /\ lastValidation' = Validate(value, releases, currentVersion, isFirstEnter)
       /\ lastValidation' \in {"InvalidFormat", "DuplicateVersion",
                               "NotGreaterThanCurrent"}
       /\ lastInput' = value
  /\ UNCHANGED << pc, inCatch, releases, currentVersion, isFirstEnter, answer,
                  ctxVars, envVars, pubVars, trace, exitCode, sigintHandlers,
                  retries,
                  cliVars, console >>

\* semver.lt raises inside the validate callback
ManualThrow ==
  /\ pc = "manual"
  /\ \E value \in ManualInputs :
       Validate(value, releases, currentVersion, isFirstEnter) = "Throw"
  /\ RaiseInGetVersion

\* empty input is accepted by validate and ends the process
ManualAbort ==
  /\ pc = "manual"
  /\ \E value \in ManualInputs :
       /\ Validate(value, releases, currentVersion, isFirstEnter) = "Accept"
       /\ Trim(value) = << >>
       /\ lastInput' = value
  /\ lastValidation' = "Accept"
  /\ Exit(0)
  /\ UNCHANGED << inCatch, releases, currentVersion, isFirstEnter, answer,
                  ctxVars, envVars, pubVars, trace, sigintHandlers, retries,
                  cliVars, console >>

\* ManualAccept that returns the baseline as previousVersion in both cases
ManualAcceptKeepsBaseline ==
  /\ pc = "manual"
  /\ \E value \in ManualInputs :
       /\ Validate(value, releases, currentVersion, isFirstEnter) = "Accept"
       /\ Trim(value) # << >>
       /\ lastInput' = value
       /\ version' = value
  /\ previousVersion' = currentVersion
  /\ lastValidation' = "Accept"
  /\ pc' = "confirm"
  /\ UNCHANGED << inCatch, releases, currentVersion, isFirstEnter, answer,
                  envVars, pubVars, trace, exitCode, sigintHandlers, retries,
                  cliVars, console >>

\* an accepted, non-empty answer is returned as typed
ManualAccept ==
  /\ pc = "manual"
  /\ \E value \in ManualInputs :
       /\ Validate(value, releases, currentVersion, isFirstEnter) = "Accept"
       /\ Trim(value) # << >>
       /\ lastInput' = value
       /\ version' = value
  /\ previousVersion' = IF isFirstEnter THEN << >> ELSE currentVersion
  /\ lastValidation' = "Accept"
  /\ pc' = "confirm"
  /\ UNCHANGED << inCatch, releases, currentVersion, isFirstEnter, answer,
                  envVars, pubVars, trace, exitCode, sigintHandlers, retries,
                  cliVars, console >>

(***************************************************************************)
(* ConfirmVersion and ValidateChangelog                                    *)
(***************************************************************************)

ConfirmYes ==
  /\ pc = "confirm"
  /\ pc' = "validate"
  /\ trace' = Append(trace, Ev("ConfirmVersion", << "y" >>, TRUE))
  /\ UNCHANGED << selVars, ctxVars, envVars, pubVars, exitCode,
                  sigintHandlers, retries,
                  cliVars, console >>

ConfirmNo ==
  /\ pc = "confirm"
  /\ Exit(0)
  /\ trace' = Append(trace, Ev("ConfirmVersion", << "n" >>, TRUE))
  /\ UNCHANGED << selVars, ctxVars, envVars, pubVars, sigintHandlers,
                  retries,
                  cliVars, console >>

\* ConfirmRetry without the `continue`: the run goes on with the selection
ConfirmRetryFallsThrough ==
  /\ pc = "confirm"
  /\ retries < MaxRetry
  /\ retries' = retries + 1
  /\ pc' = "validate"
  /\ trace' = Append(trace, Ev("ConfirmVersion", << "r" >>, TRUE))
  /\ UNCHANGED << selVars, ctxVars, envVars, pubVars, exitCode,
                  sigintHandlers,
                  cliVars, console >>

\* `continue`: the selection of this iteration goes out of scope
ConfirmRetry ==
  /\ pc = "confirm"
  /\ retries < MaxRetry
  /\ retries' = retries + 1
  /\ pc' = "getVersion"
  /\ version' = Undefined
  /\ previousVersion' = Undefined
  /\ trace' = Append(trace, Ev("ConfirmVersion", << "r" >>, TRUE))
  /\ UNCHANGED << selVars, envVars, pubVars, exitCode, sigintHandlers,
                  cliVars, console >>

\* a prompt of release() itself rejects: the top-level handler exits with 1
ReleasePromptRejects ==
  /\ pc \in {"confirm", "confirmGit"}
  /\ Exit(1)
  /\ UNCHANGED << selVars, ctxVars, envVars, pubVars, trace, sigintHandlers,
                  retries,
                  cliVars, console >>

\* the section of the confirmed version as extractMatchedVersionSection sees it
SectionOf(doc, v) ==
  IF doc.kind # "doc" THEN Thrown ELSE ExtractMatchedVersionSection(doc.nodes, v)

\* readFileSync('CHANGELOG.md'): the maintainer does not edit it during a run
ChangelogOnDisk ==
  IF changelog.kind = "unread" THEN Changelogs ELSE {changelog}

FilesOnDisk(jsonPath) ==
  IF files[jsonPath].kind # "unread" THEN {files[jsonPath]}
  ELSE IF jsonPath = PACKAGE_PATH THEN PackageFiles ELSE ManifestFiles

\* hasUpdatedChangelog is true
ChangelogFound ==
  /\ pc = "validate"
  /\ \E doc \in ChangelogOnDisk :
       /\ SectionOf(doc, version) \notin {Null, Thrown}
       /\ changelog' = doc
  /\ pc' = "updatePkg"
  /\ trace' = Append(trace, Ev("ValidateChangelog", << >>, TRUE))
  /\ UNCHANGED << selVars, ctxVars, isDryRun, files, readText, distExists, pubVars, exitCode,
                  sigintHandlers, retries,
                  cliVars, console >>

\* ChangelogNotFound that warns and carries on
ChangelogNotFoundContinues ==
  /\ pc = "validate"
  /\ \E doc \in ChangelogOnDisk :
       /\ SectionOf(doc, version) = Null
       /\ changelog' = doc
  /\ pc' = "updatePkg"
  /\ exitCode' = exitCode
  /\ trace' = Append(trace, Ev("ValidateChangelog", << >>, FALSE))
  /\ UNCHANGED << selVars, ctxVars, isDryRun, files, readText, distExists,
                  pubVars, sigintHandlers, retries,
                  cliVars, console >>

\* hasUpdatedChangelog is false: warning and plain return
ChangelogNotFound ==
  /\ pc = "validate"
  /\ \E doc \in ChangelogOnDisk :
       /\ SectionOf(doc, version) = Null
       /\ changelog' = doc
  /\ pc' = "halted"
  /\ exitCode' = 0
  /\ trace' = Append(trace, Ev("ValidateChangelog", << >>, FALSE))
  /\ UNCHANGED << selVars, ctxVars, isDryRun, files, readText, distExists, pubVars, sigintHandlers,
                  retries,
                  cliVars, console >>

\* readFileSync or semver.eq raises: release() rejects
ChangelogThrows ==
  /\ pc = "validate"
  /\ \E doc \in ChangelogOnDisk :
       /\ SectionOf(doc, version) = Thrown
       /\ changelog' = doc
  /\ Exit(1)
  /\ UNCHANGED << selVars, ctxVars, isDryRun, files, readText, distExists, pubVars, trace, sigintHandlers,
                  retries,
                  cliVars, console >>

(***************************************************************************)
(* UpdateVersionFiles, ConfirmGitOps, VerifyBranch                         *)
(***************************************************************************)

\* changeReleaseInJson(jsonPath, RELEASE_VERSION): read, parse, set version,
\* format, then write or (dry-run) log; any exception exits with code 1
ChangeReleaseInJson(jsonPath, nextPc) ==
  \E text \in FilesOnDisk(jsonPath) :
    /\ readText' = [readText EXCEPT ![jsonPath] = text]
    /\ IF text.kind # "json"
         THEN /\ Exit(1)
              /\ files' = [files EXCEPT ![jsonPath] = text]
              /\ trace' = trace
         ELSE IF isDryRun
           THEN /\ pc' = nextPc
                /\ exitCode' = exitCode
                /\ files' = [files EXCEPT ![jsonPath] = text]
                /\ trace' = Append(trace, Log(<< "Would update" >> \o jsonPath
                                                \o << "version: " >> \o version))
           ELSE \E written \in BOOLEAN :
                  /\ trace' = Append(trace, Ev("write", jsonPath, written))
                  /\ IF written
                       THEN /\ files' = [files EXCEPT ![jsonPath] =
                                           WithRelease(text, version)]
                            /\ pc' = nextPc
                            /\ exitCode' = exitCode
                       ELSE /\ files' = [files EXCEPT ![jsonPath] = text]
                            /\ Exit(1)

UpdatePackage ==
  /\ pc = "updatePkg"
  /\ ChangeReleaseInJson(PACKAGE_PATH, "updateMan")
  /\ UNCHANGED << selVars, ctxVars, isDryRun, changelog, distExists, pubVars,
                  sigintHandlers, retries,
                  cliVars, console >>

\* UpdateManifest that never shows the ConfirmGitOps prompt
UpdateManifestSkipsConfirm ==
  /\ pc = "updateMan"
  /\ ChangeReleaseInJson(MANIFEST_PATH, "verifyBranch")
  /\ UNCHANGED << selVars, ctxVars, isDryRun, changelog, distExists, pubVars,
                  sigintHandlers, retries,
                  cliVars, console >>

\* the confirm prompt of ConfirmGitOps is inside `if (!isDryRun)`
UpdateManifest ==
  /\ pc = "updateMan"
  /\ ChangeReleaseInJson(MANIFEST_PATH,
                         IF isDryRun THEN "verifyBranch" ELSE "confirmGit")
  /\ UNCHANGED << selVars, ctxVars, isDryRun, changelog, distExists, pubVars,
                  sigintHandlers, retries,
                  cliVars, console >>

ConfirmGitYes ==
  /\ pc = "confirmGit"
  /\ pc' = "verifyBranch"
  /\ trace' = Append(trace, Ev("ConfirmGitOps", << "y" >>, TRUE))
  /\ UNCHANGED << selVars, ctxVars, envVars, pubVars, exitCode,
                  sigintHandlers, retries,
                  cliVars, console >>

\* ConfirmGitNo that goes back to the version selection
ConfirmGitNoReselects ==
  /\ pc = "confirmGit"
  /\ retries < MaxRetry
  /\ retries' = retries + 1
  /\ pc' = "getVersion"
  /\ version' = Undefined
  /\ previousVersion' = Undefined
  /\ trace' = Append(trace, Ev("ConfirmGitOps", << "n" >>, TRUE))
  /\ UNCHANGED << selVars, envVars, pubVars, exitCode, sigintHandlers,
                  cliVars, console >>

\* ConfirmGitNo that puts the version files back as they were read
ConfirmGitNoRestores ==
  /\ pc = "confirmGit"
  /\ Exit(0)
  /\ files' = readText
  /\ trace' = Append(trace, Ev("ConfirmGitOps", << "n" >>, TRUE))
  /\ UNCHANGED << selVars, ctxVars, isDryRun, changelog, readText, distExists,
                  pubVars, sigintHandlers, retries, cliVars, console >>

\* ConfirmGitNo that goes on as if the answer were yes
ConfirmGitNoProceeds ==
  /\ pc = "confirmGit"
  /\ pc' = "verifyBranch"
  /\ trace' = Append(trace, Ev("ConfirmGitOps", << "n" >>, TRUE))
  /\ UNCHANGED << selVars, ctxVars, envVars, pubVars, exitCode,
                  sigintHandlers, retries,
                  cliVars, console >>

ConfirmGitNo ==
  /\ pc = "confirmGit"
  /\ Exit(0)
  /\ trace' = Append(trace, Ev("ConfirmGitOps", << "n" >>, TRUE))
  /\ UNCHANGED << selVars, ctxVars, envVars, pubVars, sigintHandlers,
                  retries,
                  cliVars, console >>

\* VerifyBranch that reports a wrong branch and goes on in both modes
VerifyBranchOnlyReports ==
  /\ pc = "verifyBranch"
  /\ \E out \in (IF isDryRun THEN {MAIN_BRANCHES[1]}
                             ELSE {Trim(o) : o \in BranchOutputs} \cup {Thrown}) :
       IF out = Thrown
         THEN /\ Exit(1)
              /\ UNCHANGED << currentBranch, trace >>
         ELSE /\ currentBranch' = out
              /\ pc' = "gitReset"
              /\ exitCode' = exitCode
              /\ trace' = Append(trace, Ev("VerifyBranch", out,
                                           Includes(MAIN_BRANCHES, out)))
  /\ UNCHANGED << selVars, ctxVars, envVars, repoUrl, releaseBody,
                  sigintHandlers, retries,
                  cliVars, console >>

\* currentBranch and the MAIN_BRANCHES check
VerifyBranch ==
  /\ pc = "verifyBranch"
  /\ \E out \in (IF isDryRun THEN {MAIN_BRANCHES[1]}
                             ELSE {Trim(o) : o \in BranchOutputs} \cup {Thrown}) :
       IF out = Thrown
         THEN /\ Exit(1)
              /\ UNCHANGED << currentBranch, trace >>
         ELSE /\ currentBranch' = out
              /\ IF Includes(MAIN_BRANCHES, out)
                   THEN /\ pc' = "gitReset"
                        /\ exitCode' = exitCode
                        /\ trace' = Append(trace, Ev("VerifyBranch", out, TRUE))
                   ELSE /\ trace' = Append(trace, Ev("VerifyBranch", out, FALSE))
                        /\ IF isDryRun
                             THEN pc' = "gitReset" /\ exitCode' = exitCode
                             ELSE Exit(1)
  /\ UNCHANGED << selVars, ctxVars, envVars, repoUrl, releaseBody,
                  sigintHandlers, retries,
                  cliVars, console >>

(***************************************************************************)
(* CommitAndPush, Build, PublishRelease                                    *)
(***************************************************************************)

\* ExecCommand without the isDryRun test
ExecCommandIgnoresDryRun(command, nextPc) ==
  \E ok \in BOOLEAN :
    /\ trace' = Append(trace, Ev("exec", command, ok))
    /\ IF ok THEN pc' = nextPc /\ exitCode' = exitCode ELSE Exit(1)

\* ExecCommand whose caller swallows a failure in both modes
ExecCommandSwallowsFailure(command, nextPc) ==
  IF isDryRun
    THEN /\ trace' = Append(trace, Log(<< "Would execute" >> \o command))
         /\ pc' = nextPc
         /\ exitCode' = exitCode
    ELSE \E ok \in BOOLEAN :
           /\ trace' = Append(trace, Ev("exec", command, ok))
           /\ pc' = nextPc
           /\ exitCode' = exitCode

\* execCommand inside performGitOperations' try block: a log line under
\* dry-run, else the command, whose failure exits with code 1
ExecCommand(command, nextPc) ==
  IF isDryRun
    THEN /\ trace' = Append(trace, Log(<< "Would execute" >> \o command))
         /\ pc' = nextPc
         /\ exitCode' = exitCode
    ELSE \E ok \in BOOLEAN :
           /\ trace' = Append(trace, Ev("exec", command, ok))
           /\ IF ok THEN pc' = nextPc /\ exitCode' = exitCode ELSE Exit(1)

GitResetCmd == << "git reset" >>

GitAddCmd == << "git add" >> \o PACKAGE_PATH \o MANIFEST_PATH

GitCommitCmd(v) ==
  << "git commit -m 'chore: update plugin version to " >> \o v \o << "'" >>

GitPushCmd(branch) == << "git push origin" >> \o branch

BuildCmd == << "npm run build" >>

GitReset ==
  /\ pc = "gitReset"
  /\ ExecCommand(GitResetCmd, "gitAdd")
  /\ UNCHANGED << selVars, ctxVars, envVars, pubVars, sigintHandlers,
                  retries,
                  cliVars, console >>

GitAdd ==
  /\ pc = "gitAdd"
  /\ ExecCommand(GitAddCmd, "gitCommit")
  /\ UNCHANGED << selVars, ctxVars, envVars, pubVars, sigintHandlers,
                  retries,
                  cliVars, console >>

GitCommit ==
  /\ pc = "gitCommit"
  /\ ExecCommand(GitCommitCmd(version), "gitPush")
  /\ UNCHANGED << selVars, ctxVars, envVars, pubVars, sigintHandlers,
                  retries,
                  cliVars, console >>

GitPush ==
  /\ pc = "gitPush"
  /\ ExecCommand(GitPushCmd(currentBranch), "build")
  /\ UNCHANGED << selVars, ctxVars, envVars, pubVars, sigintHandlers,
                  retries,
                  cliVars, console >>

\* buildProject: clear dist if present, then run the build
\* BuildProject that swallows a failed build outside dry-run as well
BuildProjectSwallowsFailure ==
  /\ pc = "build"
  /\ \E existed \in (IF distExists = "unknown" THEN BOOLEAN
                                                ELSE {distExists = "yes"}) :
       IF isDryRun
         THEN /\ trace' = (IF existed
                             THEN Append(trace, Log(<< "Would remove dist folder" >>))
                             ELSE trace)
                            \o << Log(<< "Would execute" >> \o BuildCmd) >>
              /\ distExists' = (IF existed THEN "yes" ELSE "no")
              /\ pc' = "repoUrl"
              /\ exitCode' = exitCode
         ELSE \E ok \in BOOLEAN :
                /\ trace' = (IF existed
                               THEN Append(trace, Ev("rm", << "dist" >>, TRUE))
                               ELSE trace)
                              \o << Ev("exec", BuildCmd, ok) >>
                /\ IF ok
                     THEN /\ distExists' \in {"yes", "no"}
                          /\ pc' = "repoUrl"
                          /\ exitCode' = exitCode
                     ELSE /\ distExists' = "no"
                          /\ pc' = "repoUrl"
                          /\ exitCode' = exitCode
  /\ UNCHANGED << selVars, ctxVars, isDryRun, changelog, files, readText,
                  pubVars, sigintHandlers, retries,
                  cliVars, console >>

BuildProject ==
  /\ pc = "build"
  /\ \E existed \in (IF distExists = "unknown" THEN BOOLEAN
                                                ELSE {distExists = "yes"}) :
       IF isDryRun
         THEN /\ trace' = (IF existed
                             THEN Append(trace, Log(<< "Would remove dist folder" >>))
                             ELSE trace)
                            \o << Log(<< "Would execute" >> \o BuildCmd) >>
              /\ distExists' = (IF existed THEN "yes" ELSE "no")
              /\ pc' = "repoUrl"
              /\ exitCode' = exitCode
         ELSE \E ok \in BOOLEAN :
                /\ trace' = (IF existed
                               THEN Append(trace, Ev("rm", << "dist" >>, TRUE))
                               ELSE trace)
                              \o << Ev("exec", BuildCmd, ok) >>
                /\ IF ok
                     THEN /\ distExists' \in {"yes", "no"}
                          /\ pc' = "repoUrl"
                          /\ exitCode' = exitCode
                     ELSE /\ distExists' = "no"
                          /\ Exit(1)
  /\ UNCHANGED << selVars, ctxVars, isDryRun, changelog, files, readText,
                  pubVars, sigintHandlers, retries,
                  cliVars, console >>

\* getRepoUrl: `gh repo view --json url` is run with execSync in both modes
GetRepoUrl ==
  /\ pc = "repoUrl"
  /\ \E out \in {ExampleRepoUrl, Thrown} :
       IF out = Thrown
         THEN Exit(1) /\ repoUrl' = Thrown
         ELSE pc' = "publish" /\ exitCode' = exitCode /\ repoUrl' = out
  /\ UNCHANGED << selVars, ctxVars, envVars, currentBranch, releaseBody,
                  trace, sigintHandlers, retries,
                  cliVars, console >>

\* NotesSection that extracts the section of the previous version
NotesSectionOfPrevious == SectionOf(changelog, previousVersion)

\* const changelogSection = await extractMatchedVersionSection(version)
NotesSection == SectionOf(changelog, version)

ReleaseCreateCmd(v) == << "gh release create" >> \o v

\* createGitHubRelease followed by the closing message of release()
CreateGitHubRelease ==
  /\ pc = "publish"
  /\ LET body == ReleaseBody(NotesSection, repoUrl,
                             previousVersion, version) IN
       /\ releaseBody' = body
       /\ IF isDryRun
            THEN /\ trace' = trace \o
                      << Log(<< "Would create release with body" >>),
                         Log(<< "DRY RUN COMPLETE" >>) >>
                 /\ pc' = "done"
                 /\ exitCode' = 0
            ELSE IF distExists # "yes"
              THEN /\ Exit(1)
                   /\ trace' = trace
              ELSE \E ok \in BOOLEAN :
                     /\ trace' = Append(trace,
                                        Ev("exec", ReleaseCreateCmd(version), ok))
                     /\ IF ok THEN pc' = "done" /\ exitCode' = 0 ELSE Exit(1)
  /\ UNCHANGED << selVars, ctxVars, envVars, currentBranch, repoUrl,
                  sigintHandlers, retries,
                  cliVars, console >>

(***************************************************************************)
(* Specification                                                           *)
(***************************************************************************)

VersionMenu ==
  \/ ChoosePatch \/ ChooseMinor \/ ChooseMajor
  \/ ChooseManual \/ ChooseView \/ ViewBack \/ ChooseExit

GetNewVersion == ManualReject \/ ManualThrow \/ ManualAbort \/ ManualAccept

StartCommand == StartObsidian \/ CheckRunning \/ SpawnObsidian \/ SpawnErrorEvent

Next ==
  \/ FindRoot
  \/ Program
  \/ Main
  \/ StartCommand
  \/ CheckGhCli
  \/ GetVersion
  \/ GetVersionFallback
  \/ VersionMenu
  \/ GetNewVersion
  \/ SelectPromptRejects
  \/ ConfirmYes \/ ConfirmNo \/ ConfirmRetry
  \/ ReleasePromptRejects
  \/ ChangelogFound \/ ChangelogNotFound \/ ChangelogThrows
  \/ UpdatePackage \/ UpdateManifest
  \/ ConfirmGitYes \/ ConfirmGitNo
  \/ VerifyBranch
  \/ GitReset \/ GitAdd \/ GitCommit \/ GitPush
  \/ BuildProject
  \/ GetRepoUrl
  \/ CreateGitHubRelease

Spec == Init /\ [][Next]_vars

(***************************************************************************)
(* Interrupt signal                                                        *)
(***************************************************************************)

Terminated == pc \in {"exited", "halted", "done", "returned", "killed"}

ClosingMessage == "Process terminated. Exiting gracefully..."

\* SIGINT with a listener registered by versionMenu: the first listener
\* prints the closing message and exits with code 0
InterruptHandled ==
  /\ ~Terminated
  /\ sigintHandlers > 0
  /\ console' = Append(console, ClosingMessage)
  /\ Exit(0)
  /\ UNCHANGED << selVars, ctxVars, envVars, pubVars, trace, sigintHandlers,
                  retries, cliVars >>

\* SIGINT without a listener: the runtime ends the process by the signal,
\* which the shell reports as status 130, and nothing is printed
InterruptDefault ==
  /\ ~Terminated
  /\ sigintHandlers = 0
  /\ pc' = "killed"
  /\ exitCode' = 130
  /\ UNCHANGED << selVars, ctxVars, envVars, pubVars, trace, sigintHandlers,
                  retries, cliVars, console >>

Interrupt == InterruptHandled \/ InterruptDefault

NextInterrupt == Next \/ Interrupt

SpecInterrupt == Init /\ [][NextInterrupt]_vars

(***************************************************************************)
(* Properties                                                              *)
(***************************************************************************)

\* positions of the release command at which it runs an external command,
\* reads or writes a file, or waits for an answer to a prompt
CommandPcs ==
  { "checkGh", "getVersion", "fallback", "menu", "confirm", "validate",
    "updatePkg", "updateMan", "confirmGit", "verifyBranch", "gitReset",
    "gitAdd", "gitCommit", "gitPush", "build", "repoUrl", "publish" }

\* every external command returns and every prompt is answered: the run
\* does not stay at a position for ever
EveryCommandReturns == \A p \in CommandPcs : []<>(pc # p)

\* the operator eventually stops choosing view-previous-versions
StopsViewing == <>[](pc # "viewPrev")

\* the operator eventually enters an acceptable or empty manual version
EntersAcceptable == []<>(pc # "manual")

\* the runs in which the environment and the operator behave in this way;
\* Retry is bounded by MaxRetry
LiveSpec ==
  /\ Init /\ [][Next]_vars
  /\ EveryCommandReturns
  /\ StopsViewing
  /\ EntersAcceptable

VersionFiles == {PACKAGE_PATH, MANIFEST_PATH}

\* events that change the project, the repository or the release host
IsMutation(ev) == ev.op \in {"write", "rm", "exec"}

NoMutationSoFar == \A i \in 1..Len(trace) : ~IsMutation(trace[i])

Happened(ev) == \E i \in 1..Len(trace) : trace[i] = ev

\* C1: under dry-run no version file is written, the build output directory
\* is not removed, and no git, build or create-release command is executed,
\* whatever the operator chooses and the external commands answer
DryRunNeverMutates ==
  isDryRun =>
    /\ NoMutationSoFar
    /\ \A f \in VersionFiles : files[f] = readText[f]

DryRunCompleted == isDryRun /\ pc = "done"

\* position of an event in the order of the orchestrator's steps
Rank(ev) ==
  CASE ev.op = "SelectVersion" -> 1
    [] ev.op = "ConfirmVersion" -> 2
    [] ev.op = "ValidateChangelog" -> 3
    [] ev.op = "write" /\ ev.arg = PACKAGE_PATH -> 4
    [] ev.op = "write" /\ ev.arg = MANIFEST_PATH -> 5
    [] ev.op = "ConfirmGitOps" -> 6
    [] ev.op = "VerifyBranch" -> 7
    [] ev.op = "exec" /\ ev.arg = GitResetCmd -> 8
    [] ev.op = "exec" /\ ev.arg = GitAddCmd -> 9
    [] ev.op = "exec" /\ ev.arg[1] = GitCommitCmd(<< >>)[1] -> 10
    [] ev.op = "exec" /\ ev.arg[1] = GitPushCmd(<< >>)[1] -> 11
    [] ev.op = "rm" -> 12
    [] ev.op = "exec" /\ ev.arg = BuildCmd -> 13
    [] ev.op = "exec" /\ ev.arg[1] = ReleaseCreateCmd(<< >>)[1] -> 14
    [] OTHER -> 0

\* the step ended in the way that lets the run go on
Completed(ev) ==
  /\ ev.ok
  /\ ev.op \in {"ConfirmVersion", "ConfirmGitOps"} => ev.arg = << "y" >>

\* C2: outside dry-run every step starts right after the completion of the
\* step before it in the order SelectVersion .. PublishRelease (a selection
\* also restarts after Retry), so create-release is invoked only after the
\* version was confirmed, the section found, both files written, git
\* operations confirmed, the branch verified, the push and the build done
StepsInOrder ==
  ~isDryRun =>
    \A i \in 1..Len(trace) :
      LET r == Rank(trace[i]) IN
        /\ r >= 1
        /\ r = 1 => \/ i = 1
                    \/ /\ trace[i - 1].op = "ConfirmVersion"
                       /\ trace[i - 1].arg = << "r" >>
        /\ r > 1 => /\ i > 1
                    /\ Completed(trace[i - 1])
                    /\ \/ Rank(trace[i - 1]) = r - 1
                       \/ r = 13 /\ Rank(trace[i - 1]) = 11

ReleasePublished ==
  /\ ~isDryRun
  /\ pc = "done"
  /\ Happened(Ev("exec", ReleaseCreateCmd(version), TRUE))

\* C3: when the extractor reports NotFound for the confirmed version the run
\* halts there: no version file is touched, no git, build or create-release
\* command runs, and the exit code is not forced to a non-zero value
NotFoundHalts ==
  (trace # << >> /\ trace[Len(trace)] = Ev("ValidateChangelog", << >>, FALSE)) =>
    /\ pc = "halted"
    /\ exitCode = 0
    /\ NoMutationSoFar
    /\ \A f \in VersionFiles : files[f].kind = "unread"

HaltedOnMissingSection ==
  /\ pc = "halted"
  /\ ~isDryRun
  /\ SectionOf(changelog, version) = Null

\* C4: every version that reaches ConfirmVersion is valid semantic
\* versioning, is not among the existing versions and, when a current
\* version exists, is strictly greater than it
ConfirmedVersionIsFresh ==
  pc = "confirm" =>
    /\ SemverValid(version)
    /\ ~Includes(releases, version)
    /\ releases # << >> =>
         /\ SemverValid(currentVersion)
         /\ SemverGt(version, currentVersion)

\* C5: once UpdateVersionFiles has completed outside dry-run, the version
\* member of package.json and of manifest.json is the confirmed version and
\* every other member has the value that was read
KeysOf(obj) == {obj[i][1] : i \in 1..Len(obj)}

VersionFilesUpdated ==
  (~isDryRun /\ Happened(Ev("write", MANIFEST_PATH, TRUE))) =>
    \A f \in VersionFiles :
      LET new == JsonParse(files[f])
          old == JsonParse(readText[f])
      IN /\ files[f].kind = "json"
         /\ ObjGet(new, "version") = version
         /\ \A k \in (KeysOf(old) \cup KeysOf(new)) \ {"version"} :
              ObjGet(new, k) = ObjGet(old, k)

BothFilesWritten ==
  /\ ~isDryRun
  /\ pc = "confirmGit"
  /\ Len(readText[PACKAGE_PATH].pairs) > Len(files[PACKAGE_PATH].pairs)
  /\ ~HasKey(readText[MANIFEST_PATH].pairs, "version")

\* the candidate is one that manual entry has to accept
IsFreshCandidate(v) ==
  /\ SemverValid(v)
  /\ ~Includes(releases, v)
  /\ \/ isFirstEnter
     \/ SemverValid(currentVersion) /\ SemverGt(v, currentVersion)

\* C6: a valid semantic version that is not among the existing versions and
\* is greater than the current version (or there is none) is accepted by
\* manual entry
ManualEntryAcceptsFresh ==
  /\ pc = "manual" =>
       \A v \in ManualInputs :
         IsFreshCandidate(v) =>
           Validate(v, releases, currentVersion, isFirstEnter) = "Accept"
  /\ (lastInput # Undefined /\ IsFreshCandidate(lastInput)) =>
       lastValidation = "Accept"

FreshCandidateAccepted ==
  /\ pc = "confirm"
  /\ ~isFirstEnter
  /\ lastValidation = "Accept"
  /\ SemverGt(lastInput, currentVersion)
  /\ version = lastInput

\* C7 as stated: a candidate that is among the existing versions is refused
\* with the duplicate error, whether or not it is valid semantic versioning
DuplicateAlwaysReported ==
  (lastInput # Undefined /\ Includes(releases, lastInput)) =>
    lastValidation = "DuplicateVersion"

\* C7 amended: a candidate that is among the existing versions is refused,
\* with the duplicate error when it is valid semantic versioning and with
\* the format error when it is not
DuplicateRefused ==
  /\ pc = "manual" =>
       \A v \in ManualInputs :
         Includes(releases, v) =>
           Validate(v, releases, currentVersion, isFirstEnter) =
             (IF SemverValid(v) THEN "DuplicateVersion" ELSE "InvalidFormat")
  /\ (lastInput # Undefined /\ Includes(releases, lastInput)) =>
       lastValidation =
         (IF SemverValid(lastInput) THEN "DuplicateVersion" ELSE "InvalidFormat")

DuplicateWasTyped ==
  /\ pc = "manual"
  /\ Includes(releases, lastInput)
  /\ lastValidation = "DuplicateVersion"

\* C8: with a current version, a valid candidate that is not a duplicate and
\* is not strictly greater than the current version, one equal to it
\* included, is refused with the not-greater error
NotGreaterAlwaysRefused ==
  ( /\ lastInput # Undefined
    /\ ~isFirstEnter
    /\ SemverValid(currentVersion)
    /\ SemverValid(lastInput)
    /\ ~Includes(releases, lastInput)
    /\ ~SemverGt(lastInput, currentVersion) ) =>
    lastValidation = "NotGreaterThanCurrent"

\* the current version is of the plain form MAJOR.MINOR.PATCH
ThreeNumericIds(parts) == Len(parts) = 3 /\ AllNumericIds(parts)

IsPlainVersion(v) == ThreeNumericIds(Split(v, "."))

\* the bump the menu has to return for the parsed current version c
ExpectedBump(c, choice) ==
  IF choice = "1" THEN V(c.major, c.minor, c.patch + 1)
  ELSE IF choice = "2" THEN V(c.major, c.minor + 1, 0)
  ELSE V(c.major + 1, 0, 0)

\* C9: for a current version MAJOR.MINOR.PATCH the menu returns
\* MAJOR.MINOR.(PATCH+1) for patch, MAJOR.(MINOR+1).0 for minor and
\* (MAJOR+1).0.0 for major; 2.3.5 gives 2.3.6, 2.4.0 and 3.0.0
BumpsAreCanonical ==
  (pc = "confirm" /\ answer \in {"1", "2", "3"} /\ IsPlainVersion(currentVersion)) =>
      /\ version = ExpectedBump(SemverParse(currentVersion), answer)
      /\ currentVersion = << "2", ".", "3", ".", "5" >> =>
           /\ answer = "1" => version = << "2", ".", "3", ".", "6" >>
           /\ answer = "2" => version = << "2", ".", "4", ".", "0" >>
           /\ answer = "3" => version = << "3", ".", "0", ".", "0" >>

MinorBumpOf235 ==
  /\ pc = "confirm"
  /\ answer = "2"
  /\ currentVersion = << "2", ".", "3", ".", "5" >>
  /\ version = << "2", ".", "4", ".", "0" >>

\* C10: with no existing version the selection is a manual entry with the
\* greater-than check switched off, the menu is not shown and previousVersion
\* is empty; with existing versions previousVersion is the baseline
FirstReleaseHasNoPrevious ==
  /\ pc \in {"menu", "viewPrev"} => releases # << >>
  /\ (pc = "manual" /\ releases = << >>) => (isFirstEnter /\ answer = "none")
  /\ version # Undefined =>
       IF releases = << >>
         THEN /\ previousVersion = << >>
              /\ answer = "none"
              /\ isFirstEnter
              /\ lastValidation = "Accept"
         ELSE /\ previousVersion = currentVersion
              /\ ~isFirstEnter

FirstReleaseConfirmed ==
  /\ pc = "confirm"
  /\ releases = << >>
  /\ previousVersion = << >>
  /\ SemverValid(version)

\* C11: from the changelog `# 1.0.0`, a, `# 1.1.0`, b the extraction of 1.0.0
\* is the content between the two headings, the extraction of 1.1.0 is the
\* content after its heading to the end, and the extraction of 2.0.0 is
\* NotFound
ExampleSectionsExtracted ==
  (changelog = TwoReleaseChangelog /\ version # Undefined) =>
    /\ version = V(1, 0, 0) => SectionOf(changelog, version) = << "a", "\n" >>
    /\ version = V(1, 1, 0) => SectionOf(changelog, version) = << "b", "\n" >>
    /\ version = V(2, 0, 0) => SectionOf(changelog, version) = Null

\* C12 as stated: a heading `# [1.2.3]` matches a request for 1.2.3 and a
\* heading `# 1.2.30` does not, in the validation of the changelog as in the
\* extraction of the release notes (both are the same extraction)
BracketedMarkerMatches ==
  /\ (changelog = BracketedChangelog /\ version = V(1, 2, 3)) =>
       /\ SectionOf(changelog, version) \notin {Null, Thrown}
       /\ pc # "halted"
  /\ (changelog = LongerPatchChangelog /\ version = V(1, 2, 3)) =>
       /\ SectionOf(changelog, version) = Null
       /\ pc = "halted"

\* least element of a non-empty set of integers, or the default
MinOf(S, default) ==
  IF S = {} THEN default ELSE CHOOSE j \in S : \A k \in S : j <= k

\* index of the first depth-1 heading after node m, Len(nodes) + 1 if none
NextTopLevel(nodes, m) ==
  MinOf({j \in (m + 1)..Len(nodes) :
           nodes[j].type = "heading" /\ nodes[j].depth = 1},
        Len(nodes) + 1)

BlocksOfMarker(nodes, m) == SubSeq(nodes, m + 1, NextTopLevel(nodes, m) - 1)

MarkerSectionIs(nodes, v, m) ==
  m > 0 => Traverse(nodes, v) = Stringify(BlocksOfMarker(nodes, m))

\* C13: for a matched marker the section is the blocks after the marker up
\* to, not including, the next depth-1 heading or the end of the document,
\* in their order; a heading of depth 2 or more is content of the section
SectionIsBlocksUpToNextMarker ==
  /\ changelog.kind = "doc" =>
       MarkerSectionIs(changelog.nodes, version,
                       FirstMarkerFrom(changelog.nodes, version, 1))
  /\ (changelog = NestedHeadingChangelog /\ version = V(1, 0, 1)) =>
       SectionOf(changelog, version) =
         << "a", "\n", "\n", "#", "#", " ", "s", "\n", "\n", "b", "\n" >>

NestedSectionExtracted ==
  /\ pc = "updatePkg"
  /\ changelog = NestedHeadingChangelog
  /\ version = V(1, 0, 1)

\* positions of the writes of a version file in the run
Writes(f) ==
  {i \in 1..Len(trace) : trace[i].op = "write" /\ trace[i].arg = f}

GoodWrites(f) == {i \in Writes(f) : trace[i].ok}

\* a version file did not parse or could not be written
FileError ==
  \/ \E f \in VersionFiles : readText[f].kind = "bad"
  \/ \E i \in 1..Len(trace) : trace[i].op = "write" /\ ~trace[i].ok

\* the section was found and UpdateVersionFiles is no longer running
PastUpdateVersionFiles ==
  /\ Happened(Ev("ValidateChangelog", << >>, TRUE))
  /\ pc \notin {"updatePkg", "updateMan"}

\* C14: whatever the operator chose before, package.json and manifest.json
\* are each written at most once in a run, and exactly once when the run is
\* not a dry run, has passed ValidateChangelog and met no file error
EachFileWrittenOnce ==
  /\ \A f \in VersionFiles : Cardinality(Writes(f)) <= 1
  /\ (~isDryRun /\ PastUpdateVersionFiles /\ ~FileError) =>
       \A f \in VersionFiles : Cardinality(GoodWrites(f)) = 1

WrittenOnceAfterRetry ==
  /\ ~isDryRun
  /\ retries > 0
  /\ pc = "confirmGit"
  /\ \A f \in VersionFiles : Cardinality(GoodWrites(f)) = 1

LastIs(ev) == trace # << >> /\ trace[Len(trace)] = ev

NothingTouched ==
  /\ NoMutationSoFar
  /\ \A f \in VersionFiles : files[f].kind = "unread"

\* what the selection that is in effect returned
SelectionOf ==
  IF answer = "1" THEN BumpPatch(currentVersion)
  ELSE IF answer = "2" THEN BumpMinor(currentVersion)
  ELSE IF answer = "3" THEN BumpMajor(currentVersion)
  ELSE lastInput

\* C15: Retry at ConfirmVersion goes back to SelectVersion and drops the
\* selection, abort exits with code 0, and in both cases nothing was written
\* or executed; the version and previousVersion of the later steps (commit
\* message, create-release, release notes) are those of the last selection
RetryDiscardsSelection ==
  /\ pc = "confirm" => NothingTouched
  /\ LastIs(Ev("ConfirmVersion", << "r" >>, TRUE)) =>
       /\ pc = "getVersion"
       /\ version = Undefined
       /\ previousVersion = Undefined
       /\ NothingTouched
  /\ LastIs(Ev("ConfirmVersion", << "n" >>, TRUE)) =>
       /\ pc = "exited"
       /\ exitCode = 0
       /\ NothingTouched
  /\ version # Undefined =>
       /\ version = SelectionOf
       /\ previousVersion = (IF isFirstEnter THEN << >> ELSE currentVersion)
  /\ \A i \in 1..Len(trace) :
       /\ Rank(trace[i]) = 10 => trace[i].arg = GitCommitCmd(version)
       /\ Rank(trace[i]) = 14 => trace[i].arg = ReleaseCreateCmd(version)
  /\ pc = "done" =>
       releaseBody = ReleaseBody(SectionOf(changelog, version), repoUrl,
                                 previousVersion, version)

CommittedAfterRetry ==
  /\ retries > 0
  /\ Happened(Ev("ConfirmVersion", << "r" >>, TRUE))
  /\ Happened(Ev("exec", GitCommitCmd(version), TRUE))

\* C16: the run exits with code 0 on each abort of the operator: Exit in
\* the version menu, empty input at manual entry (which the validation
\* accepts), No at ConfirmVersion and No at ConfirmGitOps
UserAbortsExitZero ==
  /\ answer = "6" => (pc = "exited" /\ exitCode = 0)
  /\ pc = "manual" =>
       Validate(<< >>, releases, currentVersion, isFirstEnter) = "Accept"
  /\ (lastInput # Undefined /\ Trim(lastInput) = << >>) =>
       /\ lastValidation = "Accept"
       /\ pc = "exited"
       /\ exitCode = 0
  /\ Happened(Ev("ConfirmVersion", << "n" >>, TRUE)) =>
       (pc = "exited" /\ exitCode = 0)
  /\ Happened(Ev("ConfirmGitOps", << "n" >>, TRUE)) =>
       (pc = "exited" /\ exitCode = 0)

EmptyInputAborted ==
  /\ pc = "exited"
  /\ exitCode = 0
  /\ lastInput = << >>
  /\ ~isFirstEnter

\* C17: outside dry-run a No at ConfirmGitOps ends the run with no git
\* command, no build and no create-release executed; under dry-run the prompt
\* is not shown and VerifyBranch follows the manifest update directly
DeclineStopsBeforeGit ==
  /\ Happened(Ev("ConfirmGitOps", << "n" >>, TRUE)) =>
       /\ ~isDryRun
       /\ pc = "exited"
       /\ \A i \in 1..Len(trace) : trace[i].op \notin {"exec", "rm"}
  /\ isDryRun =>
       /\ pc # "confirmGit"
       /\ \A i \in 1..Len(trace) :
            /\ trace[i].op # "ConfirmGitOps"
            /\ trace[i].op = "VerifyBranch" =>
                 /\ i > 1
                 /\ trace[i - 1] = Log(<< "Would update" >> \o MANIFEST_PATH
                                         \o << "version: " >> \o version)

DeclinedGitOps ==
  /\ ~isDryRun
  /\ pc = "exited"
  /\ LastIs(Ev("ConfirmGitOps", << "n" >>, TRUE))
  /\ files[MANIFEST_PATH].kind = "json"

IsReleaseBranch(b) == \E k \in 1..Len(MAIN_BRANCHES) : b = MAIN_BRANCHES[k]

\* C18: outside dry-run a branch other than main and master ends the run
\* with a non-zero exit code before any git command, build or create-release;
\* every push names a branch of the allow-list; under dry-run the run goes on
\* from the branch check to the git commands
BranchGuardHalts ==
  /\ ~isDryRun =>
       \A i \in 1..Len(trace) :
         (trace[i].op = "VerifyBranch" /\ ~IsReleaseBranch(trace[i].arg)) =>
           /\ ~trace[i].ok
           /\ i = Len(trace)
           /\ pc = "exited"
           /\ exitCode > 0
           /\ \A j \in 1..Len(trace) : trace[j].op \notin {"exec", "rm"}
  /\ \A i \in 1..Len(trace) :
       Rank(trace[i]) = 11 =>
         \E k \in 1..Len(MAIN_BRANCHES) :
           trace[i].arg = GitPushCmd(MAIN_BRANCHES[k])
  /\ (isDryRun /\ trace # << >> /\ trace[Len(trace)].op = "VerifyBranch") =>
       pc = "gitReset"

HaltedOnWrongBranch ==
  /\ ~isDryRun
  /\ pc = "exited"
  /\ exitCode = 1
  /\ currentBranch # Undefined
  /\ ~IsReleaseBranch(currentBranch)

\* the commands of performGitOperations in the order of its try block
GitSteps ==
  << GitResetCmd,
     << "git add" >> \o << "package.json" >> \o << "manifest.json" >>,
     GitCommitCmd(version),
     GitPushCmd(currentBranch) >>

\* C19: the git commands run in the order reset, add of exactly package.json
\* and manifest.json, commit with the message naming the new version, push
\* to the verified branch (under dry-run their log lines come in that
\* order); outside dry-run a failed one is the last command of the run
GitStepsInOrder ==
  /\ \A i \in 1..Len(trace) :
       LET r == Rank(trace[i]) IN
         (r >= 8 /\ r <= 11) =>
           /\ ~isDryRun
           /\ trace[i].arg = GitSteps[r - 7]
           /\ r > 8 => trace[i - 1] = Ev("exec", GitSteps[r - 8], TRUE)
           /\ r = 11 => Happened(Ev("VerifyBranch", currentBranch, TRUE))
           /\ ~trace[i].ok => (i = Len(trace) /\ pc = "exited")
  /\ \A k \in 2..4 : \A i \in 1..Len(trace) :
       trace[i] = Log(<< "Would execute" >> \o GitSteps[k]) =>
         /\ i > 1
         /\ trace[i - 1] = Log(<< "Would execute" >> \o GitSteps[k - 1])
  /\ pc = "build" =>
       /\ Len(trace) >= 4
       /\ \A k \in 1..4 :
            trace[Len(trace) - 4 + k] =
              (IF isDryRun THEN Log(<< "Would execute" >> \o GitSteps[k])
                           ELSE Ev("exec", GitSteps[k], TRUE))

CommitFailed ==
  /\ ~isDryRun
  /\ pc = "exited"
  /\ LastIs(Ev("exec", GitCommitCmd(version), FALSE))

\* C20: outside dry-run a failed step is the last step of the run and the
\* exit code is non-zero: a version file that does not parse or cannot be
\* written, a git command, the build, the repository URL, create-release; a
\* release is created only after the push and the build succeeded
FailureHalts ==
  ~isDryRun =>
    /\ \A i \in 1..Len(trace) :
         (trace[i].op \in {"write", "exec"} /\ ~trace[i].ok) =>
           /\ i = Len(trace)
           /\ pc = "exited"
           /\ exitCode > 0
    /\ (\E f \in VersionFiles : readText[f].kind = "bad") =>
         /\ pc = "exited"
         /\ exitCode > 0
         /\ readText[PACKAGE_PATH].kind = "bad" => trace[Len(trace)].op = "ValidateChangelog"
         /\ readText[MANIFEST_PATH].kind = "bad" => trace[Len(trace)] = Ev("write", PACKAGE_PATH, TRUE)
    /\ repoUrl = Thrown =>
         /\ pc = "exited"
         /\ exitCode > 0
         /\ trace[Len(trace)] = Ev("exec", BuildCmd, TRUE)
    /\ \A i \in 1..Len(trace) :
         Rank(trace[i]) = 14 =>
           /\ \A j \in 1..(i - 1) : trace[j].ok
           /\ Happened(Ev("exec", GitPushCmd(currentBranch), TRUE))
           /\ Happened(Ev("exec", BuildCmd, TRUE))

BuildFailed ==
  /\ ~isDryRun
  /\ exitCode = 1
  /\ LastIs(Ev("exec", BuildCmd, FALSE))

\* C21: the release notes are the section, a blank line and the Full
\* Changelog line; for version 2.0.0, previous version 1.9.0, the repository
\* https://example.com/org/repo and the changelog body `Fixed bug X` they are
\* `Fixed bug X\n\n**Full Changelog**: https://example.com/org/repo/compare/1.9.0...2.0.0`
ExampleNotesComposed ==
  ( /\ releaseBody # Undefined
    /\ changelog = FixedBugChangelog
    /\ version = V(2, 0, 0)
    /\ previousVersion = V(1, 9, 0)
    /\ repoUrl = << "https://example.com/org/repo" >> ) =>
    releaseBody =
      << "Fixed bug X", "\n", "\n", "**Full Changelog**: ",
         "https://example.com/org/repo", "/", "compare", "/" >>
        \o V(1, 9, 0) \o << ".", ".", "." >> \o V(2, 0, 0)

\* C22: on a first release, where previousVersion is empty, the release
\* notes hold no `/compare/` link with an empty left-hand version
FirstReleaseOmitsCompare ==
  (releaseBody # Undefined /\ previousVersion = << >>) =>
    ~StrIncludes(releaseBody, << "/", "compare", "/", ".", ".", "." >>)

\* C23: under dry-run a run whose confirmed version has its section in the
\* changelog ends with DRY RUN COMPLETE and in no other way, with no version
\* file written and create-release not invoked
DryRunEndsComplete ==
  (isDryRun /\ Happened(Ev("ValidateChangelog", << >>, TRUE))) =>
    /\ pc \notin {"exited", "halted"}
    /\ NoMutationSoFar
    /\ pc = "done" => LastIs(Log(<< "DRY RUN COMPLETE" >>))

\* C24: under dry-run neither a failed external tool (the repository-URL
\* query among them) nor a version file that does not parse makes the
\* process exit with a non-zero code
DryRunSuppressesFailures ==
  ( /\ isDryRun
    /\ \/ repoUrl = Thrown
       \/ \E f \in VersionFiles : readText[f].kind = "bad" ) =>
    exitCode <= 0

\* the run was ended by an interrupt signal
Interrupted ==
  \/ pc = "killed"
  \/ console # << >> /\ console[Len(console)] = ClosingMessage

\* C25: an interrupt signal at any point of the release command, the first
\* release included, ends the process with exit code 0 after the closing
\* message was printed
InterruptExitsZero ==
  (subcommand = "release" /\ Interrupted) =>
    /\ exitCode = 0
    /\ console # << >>
    /\ console[Len(console)] = ClosingMessage

\* C26: a version file that was written holds the new version from then on,
\* whatever fails or is declined afterwards: nothing restores it
NoRollback ==
  \A f \in VersionFiles :
    Happened(Ev("write", f, TRUE)) =>
      /\ files[f].kind = "json"
      /\ ObjGet(JsonParse(files[f]), "version") = version

PushFailedFilesKept ==
  /\ pc = "exited"
  /\ exitCode = 1
  /\ LastIs(Ev("exec", GitPushCmd(currentBranch), FALSE))
  /\ ObjGet(JsonParse(files[MANIFEST_PATH]), "version") = version
  /\ ObjGet(JsonParse(readText[PACKAGE_PATH]), "version") # version

\* C27: without a project root, and without the release-hosting CLI, the
\* process exits with a non-zero code and a corrective hint, before any
\* version prompt and before any file, git, build or publish action
EnvironmentFailureHints ==
  /\ root = "none" =>
       /\ pc = "exited"
       /\ exitCode > 0
       /\ console # << >>
       /\ trace = << >>
       /\ NothingTouched
  /\ Includes(console, GhMissingHint) =>
       /\ pc = "exited"
       /\ exitCode > 0
       /\ console = << GhMissingHint >>
       /\ trace = << >>
       /\ NothingTouched

\* number of getVersion prompts shown so far
SelectionPrompts ==
  Cardinality({i \in 1..Len(console) : console[i] = SelectionPrompt})

\* C28: the version-selection prompt is shown again only after a Retry of
\* the operator (the return from view-previous-versions stays in the menu):
\* no error brings it back
NoAutomaticRetry == SelectionPrompts <= retries + 1

\* the process names of ProcessNames that contain `obsidian` in any case
NamesWithObsidian ==
  { << "O", "b", "s", "i", "d", "i", "a", "n" >>,
    << "x", "O", "B", "S", "I", "D", "I", "A", "N", "x" >> }

\* C29: the start command spawns at most once, and only with a launch
\* configuration and no process whose name contains `obsidian` in any case;
\* the child is detached, has the fixed debug-port flag and is not waited for
SpawnsOnlyWhenAbsent ==
  /\ Len(spawned) <= 1
  /\ (\E i \in 1..Len(processes) : processes[i] \in NamesWithObsidian) =>
       spawned = << >>
  /\ spawned # << >> =>
       /\ subcommand = "start"
       /\ obsidianPath \notin {Undefined, << >>}
       /\ spawned[1].command = obsidianPath
       /\ spawned[1].args = << "--remote-debugging-port=9222" >>
       /\ spawned[1].detached
       /\ spawned[1].unref
       /\ pc \in {"returned", "spawnError", "exited"}

SpawnedBesideOthers ==
  /\ pc = "returned"
  /\ Len(spawned) = 1
  /\ Len(processes) = 2

\* C30: without OBSIDIAN_PATH the start command prints its guidance, spawns
\* nothing, does not look at the process list and returns with exit code 0
MissingPathFailsSoftly ==
  (subcommand = "start" /\ pc # "startObsidian" /\ obsidianPath = Undefined) =>
    /\ pc = "returned"
    /\ exitCode = 0
    /\ spawned = << >>
    /\ processes = << >>
    /\ console = GuidanceLines

GuidanceShown ==
  /\ pc = "returned"
  /\ obsidianPath = Undefined
  /\ console = GuidanceLines

\* positions of the launcher
LauncherPcs == { "startObsidian", "psList", "spawn", "spawnError" }

\* C31: `start` goes to the launcher and `release` to the release flow, the
\* --dry-run option of `release` decides the simulation mode, any other
\* subcommand prints the usage line and runs neither flow, and the process
\* ends with a non-zero code only after a command it dispatched has failed.
CliDispatches ==
  /\ subcommand = "start" =>
       /\ pc \in LauncherPcs \cup { "returned", "exited" }
       /\ trace = << >>
  /\ subcommand = "release" =>
       /\ pc \notin LauncherPcs
       /\ spawned = << >>
       /\ isDryRun = dryRunOption
  /\ subcommand = "other" =>
       /\ Terminated
       /\ Includes(console, UsageLine)
       /\ trace = << >> /\ spawned = << >>
  /\ (Terminated /\ exitCode # 0) => subcommand \in { "start", "release" }

\* C32: choosing view-previous-versions and going back is a self-loop of the
\* version menu: the step into the list and the step out of it leave the
\* current version (and with it the bump choices), the existing versions,
\* the selection, the files and the record of actions as they were, and going
\* back leads to the menu again, unless the prompt itself fails.
ViewPreviousIsSelfLoop ==
  [][ (pc = "viewPrev" \/ pc' = "viewPrev") =>
        /\ UNCHANGED << currentVersion, releases, isFirstEnter, ctxVars, files,
                        readText, changelog, distExists, pubVars, trace,
                        sigintHandlers >>
        /\ BumpPatch(currentVersion') = BumpPatch(currentVersion)
        /\ BumpMinor(currentVersion') = BumpMinor(currentVersion)
        /\ BumpMajor(currentVersion') = BumpMajor(currentVersion)
        /\ pc = "menu" => answer' = "5"
        /\ pc = "viewPrev" => pc' \in { "menu", "fallback", "exited" }
        /\ (pc = "viewPrev" /\ answer' = answer /\ inCatch' = inCatch
              /\ exitCode' = exitCode) => pc' = "menu" ]_vars

\* the operator looked at two published versions and is back in the menu
ViewedAndBack ==
  /\ pc = "menu"
  /\ answer = "5"
  /\ Len(releases) = 2
  /\ version = Undefined
  /\ NoMutationSoFar

\* C33: whenever a selection prompt is open over a non-empty list of existing
\* versions, the baseline is an element of the list and no element of the
\* list is a greater semantic version, whether the list came from the release
\* list or from the git tags.
BaselineIsGreatest ==
  (pc \in { "menu", "viewPrev", "manual" } /\ Len(releases) > 0) =>
    /\ Includes(releases, currentVersion)
    /\ \A i \in 1..Len(releases) :
         SemverValid(releases[i]) =>
           /\ SemverValid(currentVersion)
           /\ ~SemverGt(releases[i], currentVersion)

\* the version member of a version file as it is on disk
VersionField(f) == ObjGet(JsonParse(files[f]), "version")

\* C34: when the process has ended, normally or by a fatal exit, package.json
\* and manifest.json are either both as the command found them or both carry
\* the new version: never only one of the two is updated.
VersionPairInStep ==
  Terminated =>
    \/ \A f \in VersionFiles : files[f] = readText[f]
    \/ \A f \in VersionFiles :
         files[f].kind = "json" /\ VersionField(f) = version

\* C35: the extractor answers NotFound only when no version marker matches;
\* when a marker of the requested version exists, also one directly followed
\* by the next depth-1 heading or by the end of the document, the section is
\* found (with empty content in that case) and the release is not halted at
\* ValidateChangelog.
EmptySectionIsFound ==
  (changelog.kind = "doc"
     /\ FirstMarkerFrom(changelog.nodes, version, 1) > 0) =>
    /\ SectionOf(changelog, version) # Null
    /\ BlocksOfMarker(changelog.nodes,
                      FirstMarkerFrom(changelog.nodes, version, 1)) = << >> =>
         SectionOf(changelog, version) = << >>
    /\ pc # "halted"

\* the rule of C35 as the code has it, for marker index m of version v
EmptySectionRule(doc, v, m) ==
  /\ SectionOf(doc, v) = Null <=>
       (m = 0 \/ BlocksOfMarker(doc.nodes, m) = << >>)
  /\ (m > 0 /\ BlocksOfMarker(doc.nodes, m) = << >>) =>
       /\ Happened(Ev("ValidateChangelog", << >>, FALSE))
       /\ pc = "halted"
       /\ NoMutationSoFar
  /\ (m > 0 /\ BlocksOfMarker(doc.nodes, m) # << >>) =>
       /\ Happened(Ev("ValidateChangelog", << >>, TRUE))
       /\ SectionOf(doc, v) = Stringify(BlocksOfMarker(doc.nodes, m))

\* C35 (amended): the extractor answers NotFound when no version marker
\* matches and also when the matched marker is directly followed by the next
\* depth-1 heading or by the end of the document; in both cases the release
\* halts at ValidateChangelog without touching anything, and it proceeds
\* exactly when the matched section has content.
EmptySectionIsNotFound ==
  (changelog.kind = "doc" /\ SemverValid(version)) =>
    EmptySectionRule(changelog, version,
                     FirstMarkerFrom(changelog.nodes, version, 1))

\* the marker of the confirmed version is there, its section is empty
HaltedOnEmptySection ==
  /\ pc = "halted"
  /\ changelog.kind = "doc"
  /\ FirstMarkerFrom(changelog.nodes, version, 1) > 0
  /\ SectionOf(changelog, version) = Null

StartsWith(s, prefix) ==
  Len(prefix) <= Len(s) /\ SubSeq(s, 1, Len(prefix)) = prefix

\* the fallback text of the former extractor
PlaceholderNotes(v) == << "Changes for version " >> \o v

CreateReleaseInvoked ==
  \E ok \in BOOLEAN : Happened(Ev("exec", ReleaseCreateCmd(version), ok))

\* the notes begin with the blocks of marker m of the changelog
NotesOfMarker(nodes, m) ==
  /\ m > 0
  /\ SemverEq(Trim(nodes[m].value), version)
  /\ BlocksOfMarker(nodes, m) # << >>
  /\ StartsWith(releaseBody, Stringify(BlocksOfMarker(nodes, m)))

\* C36: whenever create-release has been invoked for version V, the notes
\* begin with the content of the changelog section whose heading is version
\* V, the section that ValidateChangelog found; they begin neither with the
\* placeholder text, nor with the text `null`, nor with the section of a
\* marker of another version.
NotesBeginWithSection ==
  CreateReleaseInvoked =>
    /\ Happened(Ev("ValidateChangelog", << >>, TRUE))
    /\ NotesOfMarker(changelog.nodes,
                     FirstMarkerFrom(changelog.nodes, version, 1))
    /\ ~StartsWith(releaseBody, TemplateString(Null))
    /\ ~StartsWith(releaseBody, PlaceholderNotes(version))
    /\ \A k \in 1..Len(changelog.nodes) :
         (IsVersionHeading(changelog.nodes[k])
            /\ ~SemverEq(Trim(changelog.nodes[k].value), version)) =>
           ~StartsWith(releaseBody,
                       Stringify(BlocksOfMarker(changelog.nodes, k)))

\* a release was published from a changelog with two version headings
PublishedWithSection ==
  /\ pc = "done"
  /\ ~isDryRun
  /\ CreateReleaseInvoked
  /\ changelog = NestedHeadingChangelog
  /\ version = V(1, 0, 1)
  /\ previousVersion = V(1, 0, 0)

\* what a real run resolves from the published versions `list` and the
\* menu choice
RealSelection(list, choice) ==
  [ version |-> IF choice = "1" THEN BumpPatch(list[1])
                ELSE IF choice = "2" THEN BumpMinor(list[1])
                ELSE BumpMajor(list[1]),
    previousVersion |-> list[1] ]

\* the selection of the dry-run is the one of the real run over `list`
SelectsAsRealRun(list) ==
  Len(list) > 0 =>
    [ version |-> version, previousVersion |-> previousVersion ] =
      RealSelection(list, answer)

\* C37: a dry-run does what the real run does from the same published
\* versions, branch, changelog and choices, except that mutations are logged:
\* for every list of published versions a bump choice resolves the version
\* and previousVersion the real run resolves, ConfirmGitOps is passed before
\* VerifyBranch, and VerifyBranch sees the current branch, whichever it is.
DryRunMirrorsRealRun ==
  isDryRun =>
    /\ (version # Undefined /\ answer \in { "1", "2", "3" }) =>
         \A o \in GhOutputs : SelectsAsRealRun(ParseReleases(Trim(o)))
    /\ currentBranch # Undefined =>
         /\ \E i \in 1..Len(trace) : trace[i].op = "ConfirmGitOps"
         /\ \A b \in BranchOutputs : currentBranch = Trim(b)

\* C39: at any point of a run at most one interrupt-signal handler is
\* registered by the release flow, however often the operator chooses Retry
\* and the version menu is entered again.
AtMostOneSigintHandler == sigintHandlers <= 1

EndedDone == pc = "done" /\ exitCode = 0

EndedByOperator == pc = "exited" /\ exitCode = 0

EndedChangelogMissing ==
  pc = "halted" /\ Happened(Ev("ValidateChangelog", << >>, FALSE))

EndedFatal == pc = "exited" /\ exitCode > 0

\* exactly one of the four ways in which a release run ends
ReleaseEnded ==
  Cardinality({ i \in 1..4 :
                  << EndedDone, EndedByOperator, EndedChangelogMissing,
                     EndedFatal >>[i] }) = 1

\* C38: when the operator eventually leaves the list of previous versions,
\* eventually stops choosing Retry and eventually enters an acceptable or
\* empty version, and every external command returns, a run of the release
\* command eventually ends in exactly one of Done, an exit asked for by the
\* operator, the halt on a missing changelog section, or a fatal exit.
ReleaseRunTerminates == (subcommand = "release") ~> ReleaseEnded

\* a version typed after a Retry was published
PublishedAfterRetry ==
  /\ pc = "done"
  /\ retries > 0
  /\ answer = "4"
  /\ ReleaseEnded

====================================================================================
